---------------------------- MODULE Spec2Model ----------------------------
(***************************************************************************)
(* A model of panorama's collector (src/collect.py): the Content Reader,   *)
(* the Inclusion Policy, the Tree Renderer, the Repository Aggregator and  *)
(* the Collection Orchestrator.                                            *)
(*                                                                         *)
(* Text.  A Python string is a sequence of tokens.  The characters '.',    *)
(* '/' and '~' are tokens of their own, and so is the word 'documentation' *)
(* at the start of a label; every other token is a maximal run of the      *)
(* remaining characters.  A file name is therefore a token sequence such   *)
(* as <<"README", ".", "md">>, and a pathlib.Path is the sequence of its   *)
(* names, the first being <<"/">> when absolute.                           *)
(*                                                                         *)
(* YAML values are tagged records: [t |-> "str", s |-> tokens],            *)
(* [t |-> "null"], [t |-> "int", n |-> i], [t |-> "map", items |-> the     *)
(* sequence of its items], [t |-> "list", l |-> sequence].                 *)
(*                                                                         *)
(* A Python call returns [exc |-> "None", val |-> v] or raises:            *)
(* [exc |-> <exception type>, arg |-> <detail>].                           *)
(***************************************************************************)
EXTENDS Integers, Sequences, FiniteSets, TLC

VARIABLES
    pc,          \* control point of the run
    fs,          \* the filesystem: absolute path -> node
    repos_data,  \* self.repos_data, the loaded manifest (a YAML value)
    idx,         \* collect_all: number of descriptors already processed
    content,     \* collect_all: the output accumulator, a sequence of lines
    result,      \* collect_all: outcome of the last _collect_repo_files call
    call,        \* unit runs: the arguments of the call under examination
    ret          \* unit runs: what that call returned or raised

vars == <<pc, fs, repos_data, idx, content, result, call, ret>>

-----------------------------------------------------------------------------
(* Bounds of the model. *)

\* Longest file content, in bytes, that a Content Reader run draws.
MaxBytes == 3
\* Longest text a write_output run draws, in characters.
MaxText == 3

\* Longest manifest a collection run draws.
MaxRepos == 3
\* Deepest chain of nested directories a Tree Renderer run draws.
MaxNest == 3

-----------------------------------------------------------------------------
(* Python values. *)

None == [exc |-> "None", val |-> [t |-> "null"]]

Return(v) == [exc |-> "None", val |-> v]

Raise(type, detail) == [exc |-> type, arg |-> detail]

Raised(r) == r.exc # "None"

YStr(s) == [t |-> "str", s |-> s]

YNull == [t |-> "null"]

YInt(i) == [t |-> "int", n |-> i]

\* a mapping keeps its insertion order: a sequence of [key, value] items
YMap(items) == [t |-> "map", items |-> items]

Item(key, value) == [key |-> <<key>>, value |-> value]

YList(q) == [t |-> "list", l |-> q]

YBool(b) == [t |-> "bool", b |-> b]

\* dict.__contains__ / the `in` test on a mapping
HasKey(d, k) == \E i \in 1..Len(d.items) : d.items[i].key = <<k>>

\* dict.__getitem__ for a key that is present
Get(d, k) ==
    d.items[CHOOSE i \in 1..Len(d.items) : d.items[i].key = <<k>>].value

\* the variables a unit run leaves alone
Idle ==
    /\ repos_data = YNull
    /\ idx = 0
    /\ content = <<>>
    /\ result = None

-----------------------------------------------------------------------------
(* Strings and paths. *)

RECURSIVE LastIndexOf(_, _)
\* str.rfind of a one-character needle, 1-based; 0 when absent
LastIndexOf(s, tok) ==
    IF s = <<>> THEN 0
    ELSE IF s[Len(s)] = tok THEN Len(s)
    ELSE LastIndexOf(SubSeq(s, 1, Len(s) - 1), tok)

\* str.startswith
StartsWith(s, prefix) ==
    /\ Len(s) >= Len(prefix)
    /\ SubSeq(s, 1, Len(prefix)) = prefix

\* PurePath.suffix of a name: the part from the last dot on, unless the dot
\* leads or ends the name
SuffixOfName(name) ==
    LET i == LastIndexOf(name, ".")
    IN  IF 1 < i /\ i < Len(name) THEN SubSeq(name, i, Len(name)) ELSE <<>>

\* PurePath.name and PurePath.suffix
PathName(p) == IF p = <<>> THEN <<>> ELSE p[Len(p)]

PathSuffix(p) == SuffixOfName(PathName(p))

\* pathlib drops the empty and the '.' components of a path string
Component(cur) == IF cur \in {<<>>, <<".">>} THEN <<>> ELSE <<cur>>

RECURSIVE SplitParts(_, _)
\* the components of a path string, split on '/'
SplitParts(s, cur) ==
    IF s = <<>> THEN Component(cur)
    ELSE IF Head(s) = "/"
         THEN Component(cur) \o SplitParts(Tail(s), <<>>)
         ELSE SplitParts(Tail(s), Append(cur, Head(s)))

RootName == <<"/">>

\* Path(str): the names of the string, led by the root when it is absolute
ParsePath(s) ==
    IF s # <<>> /\ Head(s) = "/" THEN <<RootName>> \o SplitParts(s, <<>>)
    ELSE SplitParts(s, <<>>)

IsAbsolute(p) == p # <<>> /\ p[1] = RootName

\* Path.__truediv__: an absolute right operand replaces the left one
JoinPath(p, q) == IF IsAbsolute(q) THEN q ELSE p \o q

\* the home directory and the working directory of the process
HomeDir == <<RootName, <<"home">>, <<"dev">>>>

CwdDir == <<RootName, <<"work">>>>

\* tokens of the model's alphabet in which the substring 'schema' occurs
SchemaTokens == {"schema", "schemas", "user_schema"}

RECURSIVE AnyToken(_, _)
AnyToken(s, set) ==
    IF s = <<>> THEN FALSE
    ELSE Head(s) \in set \/ AnyToken(Tail(s), set)

RECURSIVE SchemaInPath(_)
\* 'schema' in str(file_path): the needle holds neither '.' nor '/', so an
\* occurrence lies within one token of one name
SchemaInPath(p) ==
    IF p = <<>> THEN FALSE
    ELSE AnyToken(Head(p), SchemaTokens) \/ SchemaInPath(Tail(p))

-----------------------------------------------------------------------------
(* The filesystem.  fs maps an absolute path to its node; a path outside   *)
(* DOMAIN fs does not exist.                                               *)

DirNode(listable) == [kind |-> "dir", listable |-> listable]

FileNode(readable, bytes) == [kind |-> "file", readable |-> readable, bytes |-> bytes]

Exists(f, p) == p \in DOMAIN f

IsDir(f, p) == Exists(f, p) /\ f[p].kind = "dir"

IsFile(f, p) == Exists(f, p) /\ f[p].kind = "file"

\* the bytes a file of the model is made of: 'H', space, the two bytes of
\* U+00E9 (C3 A9) and FF, which no UTF-8 text contains
Bytes == {"48", "20", "C3", "A9", "FF"}

Whitespace == {" "}

RECURSIVE Utf8Decode(_)
\* bytes.decode('utf-8'): the text, or UnicodeDecodeError
Utf8Decode(b) ==
    IF b = <<>> THEN Return(<<>>)
    ELSE IF Head(b) \in {"48", "20"}
         THEN LET rest == Utf8Decode(Tail(b))
              IN  IF Raised(rest) THEN rest
                  ELSE Return(<<IF Head(b) = "48" THEN "H" ELSE " ">> \o rest.val)
    ELSE IF Head(b) = "C3" /\ Len(b) >= 2 /\ b[2] = "A9"
         THEN LET rest == Utf8Decode(Tail(Tail(b)))
              IN  IF Raised(rest) THEN rest ELSE Return(<<"e'">> \o rest.val)
    ELSE Raise("UnicodeDecodeError", "invalid byte")

RECURSIVE LStrip(_)
LStrip(s) == IF s # <<>> /\ Head(s) \in Whitespace THEN LStrip(Tail(s)) ELSE s

RECURSIVE RStrip(_)
RStrip(s) ==
    IF s # <<>> /\ s[Len(s)] \in Whitespace THEN RStrip(SubSeq(s, 1, Len(s) - 1)) ELSE s

\* str.strip
Strip(s) == RStrip(LStrip(s))

\* open(file_path, 'r', encoding='utf-8').read()
OpenRead(f, p) ==
    IF ~Exists(f, p) THEN Raise("FileNotFoundError", "open")
    ELSE IF f[p].kind = "dir" THEN Raise("IsADirectoryError", "open")
    ELSE IF ~f[p].readable THEN Raise("PermissionError", "open")
    ELSE Utf8Decode(f[p].bytes)

\* the reader with the whitespace test dropped: `if not content`
ReadFileContentNoStrip(f, file_path) ==
    IF ~Exists(f, file_path) THEN None
    ELSE LET r == OpenRead(f, file_path)
         IN  IF Raised(r) THEN None
             ELSE IF r.val = <<>> THEN None
             ELSE Return(YStr(r.val))

\* PanoramaCollector._read_file_content: every exception of the body is
\* caught and turned into None
ReadFileContent(f, file_path) ==
    IF ~Exists(f, file_path) THEN None
    ELSE LET r == OpenRead(f, file_path)
         IN  IF r.exc = "UnicodeDecodeError" THEN None
             ELSE IF Raised(r) THEN None
             ELSE IF Strip(r.val) = <<>> THEN None
             ELSE Return(YStr(r.val))

-----------------------------------------------------------------------------
(* The Inclusion Policy. *)

Dot(ext) == <<".", ext>>

ConfigSuffixes == {Dot("yaml"), Dot("yml"), Dot("json"), Dot("txt")}

TextSuffixes == {Dot("md"), Dot("yaml"), Dot("yml"), Dot("json"), Dot("txt")}

\* the policy with the general allow-list used for 'config' as well
ShouldIncludeFileConfigMd(file_path, category) ==
    IF StartsWith(category, <<"documentation">>) THEN TRUE
    ELSE IF category = <<"config">> THEN PathSuffix(file_path) \in TextSuffixes
    ELSE IF category = <<"data">> /\ SchemaInPath(file_path) THEN TRUE
    ELSE IF category = <<"examples">> THEN PathSuffix(file_path) \in TextSuffixes
    ELSE IF category \in {<<"code">>, <<"tests">>} THEN FALSE
    ELSE PathSuffix(file_path) \in TextSuffixes

\* PanoramaCollector._should_include_file
ShouldIncludeFile(file_path, category) ==
    IF StartsWith(category, <<"documentation">>) THEN TRUE
    ELSE IF category = <<"config">> THEN PathSuffix(file_path) \in ConfigSuffixes
    ELSE IF category = <<"data">> /\ SchemaInPath(file_path) THEN TRUE
    ELSE IF category = <<"examples">> THEN PathSuffix(file_path) \in TextSuffixes
    ELSE IF category \in {<<"code">>, <<"tests">>} THEN FALSE
    ELSE PathSuffix(file_path) \in TextSuffixes

-----------------------------------------------------------------------------
(* The Tree Renderer.  A line of the listing is a record: k its icon,      *)
(* indent the length of its prefix, name the entry's name.  The field `of` *)
(* is not part of the text: it records the entry the line was emitted for. *)

\* the names of the model's files and directories, in the order of Python's
\* string comparison (code points: '.' < 'A'..'Z' < '_' < 'a'..'z')
SortedNames ==
    << <<".", "env">>, <<".", "git">>, <<".", "github">>,
       <<".", "notes", ".", "md">>, <<"BLANK", ".", "md">>,
       <<"EMPTY", ".", "md">>, <<"README", ".", "md">>, <<"__pycache__">>,
       <<"api", ".", "md">>, <<"build">>, <<"config", ".", "yaml">>,
       <<"dist">>, <<"docs">>, <<"guide", ".", "md">>,
       <<"inner", ".", "md">>, <<"logo", ".", "bin">>, <<"main", ".", "py">>,
       <<"n">>, <<"node_modules">>, <<"notes", ".", "txt">>,
       <<"schema", ".", "bin">>, <<"src">>, <<"x", ".", "md">> >>

\* the position of each name in that order
RankTable ==
    [name \in {SortedNames[i] : i \in 1..Len(SortedNames)} |->
        CHOOSE i \in 1..Len(SortedNames) : SortedNames[i] = name]

NameRank(name) == RankTable[name]

\* Path.iterdir: the entries directly below p
Children(f, p) ==
    {q \in DOMAIN f : Len(q) = Len(p) + 1 /\ SubSeq(q, 1, Len(p)) = p}

RECURSIVE SortPathsDescending(_)
\* the siblings in descending order
SortPathsDescending(set) ==
    IF set = {} THEN <<>>
    ELSE LET m == CHOOSE x \in set :
                    \A y \in set : NameRank(PathName(x)) >= NameRank(PathName(y))
         IN  <<m>> \o SortPathsDescending(set \ {m})

RECURSIVE SortPaths(_)
\* sorted(...) of sibling paths
SortPaths(set) ==
    IF set = {} THEN <<>>
    ELSE LET m == CHOOSE x \in set :
                    \A y \in set : NameRank(PathName(x)) <= NameRank(PathName(y))
         IN  <<m>> \o SortPaths(set \ {m})

\* sorted(path.iterdir())
ListDir(f, p) ==
    IF ~Exists(f, p) THEN Raise("FileNotFoundError", "iterdir")
    ELSE IF f[p].kind # "dir" THEN Raise("NotADirectoryError", "iterdir")
    ELSE IF ~f[p].listable THEN Raise("PermissionError", "iterdir")
    ELSE Return(SortPaths(Children(f, p)))

DefaultMaxDepth == 3

SkippedNames ==
    {<<"__pycache__">>, <<"node_modules">>, <<".", "git">>, <<"build">>, <<"dist">>}

ShownSuffixes ==
    {Dot("md"), Dot("yaml"), Dot("yml"), Dot("json"), Dot("txt"),
     Dot("py"), Dot("sh"), Dot("zsh")}

\* the skip test with the hidden-name half forgotten
SkipEntryListOnly(name) == name \in SkippedNames

\* add_to_structure: "Skip hidden directories and common build artifacts"
SkipEntry(name) == StartsWith(name, <<".">>) \/ name \in SkippedNames

DirLine(path, prefix) == [k |-> "dir", indent |-> prefix, name |-> PathName(path), of |-> path]

FileLine(path, prefix) == [k |-> "file", indent |-> prefix, name |-> PathName(path), of |-> path]

LockLine(path, prefix) == [k |-> "lock", indent |-> prefix, name |-> <<>>, of |-> path]

FallbackText == <<[k |-> "no_accessible_files"]>>

RECURSIVE AddToStructure(_, _, _, _, _)
RECURSIVE AddItems(_, _, _, _, _)
\* the body of `for item in sorted(path.iterdir()): add_to_structure(...)`
AddItems(f, items, depth, prefix, max_depth) ==
    IF items = <<>> THEN <<>>
    ELSE AddToStructure(f, Head(items), depth, prefix, max_depth)
         \o AddItems(f, Tail(items), depth, prefix, max_depth)

\* _get_folder_structure.add_to_structure: the lines it appends
AddToStructure(f, path, depth, prefix, max_depth) ==
    IF depth > max_depth THEN <<>>
    ELSE IF SkipEntry(PathName(path)) THEN <<>>
    ELSE IF IsDir(f, path)
         THEN LET items == ListDir(f, path)
              IN  <<DirLine(path, prefix)>> \o
                  (IF items.exc = "PermissionError"
                   THEN <<LockLine(path, prefix + 2)>>
                   ELSE AddItems(f, items.val, depth + 1, prefix + 2, max_depth))
    ELSE IF IsFile(f, path)
         THEN (IF PathSuffix(path) \in ShownSuffixes
               THEN <<FileLine(path, prefix)>> ELSE <<>>)
    ELSE <<>>

\* the lines collected by the walk from the root; only PermissionError is
\* caught there
StructureOf(f, repo_path, max_depth) ==
    LET items == ListDir(f, repo_path)
    IN  IF items.exc = "PermissionError" THEN Return(<<LockLine(repo_path, 0)>>)
        ELSE IF Raised(items) THEN items
        ELSE Return(AddItems(f, items.val, 0, 0, max_depth))

\* the renderer with the fallback forgotten: "\n".join(structure)
GetFolderStructureNoFallback(f, repo_path, max_depth) ==
    StructureOf(f, repo_path, max_depth)

\* the renderer walking one level deeper than asked
GetFolderStructureDeeper(f, repo_path, max_depth) ==
    LET structure == StructureOf(f, repo_path, max_depth + 1)
    IN  IF Raised(structure) THEN structure
        ELSE IF structure.val # <<>> THEN structure
        ELSE Return(FallbackText)

\* PanoramaCollector._get_folder_structure
GetFolderStructure(f, repo_path, max_depth) ==
    LET structure == StructureOf(f, repo_path, max_depth)
    IN  IF Raised(structure) THEN structure
        ELSE IF structure.val # <<>> THEN structure
        ELSE Return(FallbackText)

-----------------------------------------------------------------------------
(* The Section Formatter.  A line of the document is a record whose field  *)
(* k names the line; a fenced block is one line holding its body.          *)

\* str.lower on the tokens of a suffix
LowerToken(tok) ==
    CASE tok \in {"MD", "Md"} -> "md"
      [] tok = "YAML" -> "yaml"
      [] tok = "YML" -> "yml"
      [] tok = "JSON" -> "json"
      [] tok = "TXT" -> "txt"
      [] OTHER -> tok

Lower(s) == [i \in 1..Len(s) |-> LowerToken(s[i])]

\* lang_map.get(extension, 'text')
LangOf(extension) ==
    CASE extension = Dot("md") -> "markdown"
      [] extension \in {Dot("yaml"), Dot("yml")} -> "yaml"
      [] extension = Dot("json") -> "json"
      [] OTHER -> "text"

\* the formatter with the suffix looked up as it is spelled
FormatFileSectionCaseSensitive(file_path, file_content, category) ==
    << [k |-> "file_heading", name |-> PathName(file_path)],
       [k |-> "file_path", path |-> file_path],
       [k |-> "file_category", category |-> category],
       [k |-> "fence", lang |-> LangOf(PathSuffix(file_path)),
        body |-> file_content] >>

\* PanoramaCollector._format_file_section
FormatFileSection(file_path, file_content, category) ==
    << [k |-> "file_heading", name |-> PathName(file_path)],
       [k |-> "file_path", path |-> file_path],
       [k |-> "file_category", category |-> category],
       [k |-> "fence", lang |-> LangOf(Lower(PathSuffix(file_path))),
        body |-> file_content] >>

-----------------------------------------------------------------------------
(* The Repository Aggregator. *)

\* os.path.expanduser: a leading '~' component becomes the home directory
ExpandUser(s) ==
    IF s # <<>> /\ Head(s) = "~" /\ (Len(s) = 1 \/ s[2] = "/")
    THEN HomeDir \o SplitParts(Tail(s), <<>>)
    ELSE ParsePath(s)

\* PanoramaCollector._expand_path: Path(expanduser(path)).resolve(); a
\* relative path is resolved against the working directory
ExpandPath(path) ==
    IF path.t # "str" THEN Raise("TypeError", "expanduser")
    ELSE Return(JoinPath(CwdDir, ExpandUser(path.s)))

\* the first of two steps that raises, or both results in order
Both(a, b) ==
    IF Raised(a) THEN a ELSE IF Raised(b) THEN b ELSE Return(a.val \o b.val)

\* truth value of what the Content Reader returned
Truthy(r) == r.val.t = "str" /\ r.val.s # <<>>

RuleLine == [k |-> "rule"]

DefaultDescription == YStr(<<"No description provided">>)

\* the identity banner and the description line
BannerLines(repo_name, description) ==
    << RuleLine, [k |-> "h1", v |-> repo_name], RuleLine,
       [k |-> "description", v |-> description] >>

RECURSIVE RemoteLines(_)
RemoteLines(items) ==
    IF items = <<>> THEN <<>>
    ELSE <<[k |-> "remote", key |-> Head(items).key, v |-> Head(items).value]>>
         \o RemoteLines(Tail(items))

\* key.replace('_', ' ').title() on the metric names of the model
Humanize(key) ==
    CASE key = <<"test_coverage">> -> <<"Test Coverage">>
      [] key = <<"docs">> -> <<"Docs">>
      [] OTHER -> key

RECURSIVE MetricLines(_)
MetricLines(items) ==
    IF items = <<>> THEN <<>>
    ELSE (IF Head(items).key # <<"notes">>
          THEN <<[k |-> "metric", key |-> Humanize(Head(items).key),
                  v |-> Head(items).value]>>
          ELSE <<>>)
         \o MetricLines(Tail(items))

\* the metadata step with the optional `type` subscripted, not tested for
MetadataLinesTypeRequired(repo_config) ==
    LET remotes ==
            IF ~HasKey(repo_config, "remotes") THEN Return(<<>>)
            ELSE IF Get(repo_config, "remotes").t # "map"
                 THEN Raise("AttributeError", "items")
            ELSE Return(<<[k |-> "remotes_heading"]>>
                        \o RemoteLines(Get(repo_config, "remotes").items))
        type ==
            IF ~HasKey(repo_config, "type") THEN Raise("KeyError", "type")
            ELSE Return(<<[k |-> "type", v |-> Get(repo_config, "type")]>>)
        quality ==
            IF ~HasKey(repo_config, "integration_quality") THEN Return(<<>>)
            ELSE LET iq == Get(repo_config, "integration_quality")
                 IN  IF iq.t # "map" THEN Raise("AttributeError", "items")
                     ELSE Return(<<[k |-> "quality_heading"]>>
                                 \o MetricLines(iq.items)
                                 \o (IF HasKey(iq, "notes")
                                     THEN <<[k |-> "notes", v |-> Get(iq, "notes")]>>
                                     ELSE <<>>))
    IN  Both(Both(remotes, type), quality)

\* collect.py 162-179: remotes, type, integration quality; .items() of a
\* value that is not a mapping raises AttributeError
MetadataLines(repo_config) ==
    LET remotes ==
            IF ~HasKey(repo_config, "remotes") THEN Return(<<>>)
            ELSE IF Get(repo_config, "remotes").t # "map"
                 THEN Raise("AttributeError", "items")
            ELSE Return(<<[k |-> "remotes_heading"]>>
                        \o RemoteLines(Get(repo_config, "remotes").items))
        type ==
            IF ~HasKey(repo_config, "type") THEN Return(<<>>)
            ELSE Return(<<[k |-> "type", v |-> Get(repo_config, "type")]>>)
        quality ==
            IF ~HasKey(repo_config, "integration_quality") THEN Return(<<>>)
            ELSE LET iq == Get(repo_config, "integration_quality")
                 IN  IF iq.t # "map" THEN Raise("AttributeError", "items")
                     ELSE Return(<<[k |-> "quality_heading"]>>
                                 \o MetricLines(iq.items)
                                 \o (IF HasKey(iq, "notes")
                                     THEN <<[k |-> "notes", v |-> Get(iq, "notes")]>>
                                     ELSE <<>>))
    IN  Both(Both(remotes, type), quality)

\* collect.py 181-185: the structure block
StructureLines(f, repo_path) ==
    LET structure == GetFolderStructure(f, repo_path, DefaultMaxDepth)
    IN  IF Raised(structure) THEN structure
        ELSE Return(<<[k |-> "structure_heading"],
                      [k |-> "structure", lines |-> structure.val]>>)

\* the documentation step with the suffix allow-list applied to its files
DocFileLinesFiltered(f, repo_path, doc_file, category) ==
    IF doc_file.t # "str" THEN Raise("TypeError", "truediv")
    ELSE LET file_path == JoinPath(repo_path, ParsePath(doc_file.s))
             file_content == ReadFileContent(f, file_path)
         IN  IF Truthy(file_content) /\ PathSuffix(file_path) \in TextSuffixes
             THEN Return(FormatFileSection(file_path, file_content.val.s, category))
             ELSE Return(<<>>)

\* repo_path / doc_file, read, and format when content was obtained
DocFileLines(f, repo_path, doc_file, category) ==
    IF doc_file.t # "str" THEN Raise("TypeError", "truediv")
    ELSE LET file_path == JoinPath(repo_path, ParsePath(doc_file.s))
             file_content == ReadFileContent(f, file_path)
         IN  IF Truthy(file_content)
             THEN Return(FormatFileSection(file_path, file_content.val.s, category))
             ELSE Return(<<>>)

RECURSIVE DocListLines(_, _, _, _)
DocListLines(f, repo_path, doc_files, category) ==
    IF doc_files = <<>> THEN Return(<<>>)
    ELSE Both(DocFileLines(f, repo_path, Head(doc_files), category),
              DocListLines(f, repo_path, Tail(doc_files), category))

RECURSIVE DocItemsLines(_, _, _)
DocItemsLines(f, repo_path, items) ==
    IF items = <<>> THEN Return(<<>>)
    ELSE LET doc_category == Head(items).key
             doc_files == Head(items).value
             label == <<"documentation", "/">> \o doc_category
         IN  Both(IF doc_files.t = "list"
                  THEN DocListLines(f, repo_path, doc_files.l, label)
                  ELSE DocFileLines(f, repo_path, doc_files, label),
                  DocItemsLines(f, repo_path, Tail(items)))

\* collect.py 187-202: the documentation group
DocumentationLines(f, repo_path, repo_config) ==
    IF ~HasKey(repo_config, "documentation") THEN Return(<<>>)
    ELSE IF Get(repo_config, "documentation").t # "map"
         THEN Raise("AttributeError", "items")
    ELSE Both(Return(<<[k |-> "documentation_heading"]>>),
              DocItemsLines(f, repo_path, Get(repo_config, "documentation").items))

\* str.title on the category labels of the model
Title(label) ==
    CASE label = <<"config">> -> <<"Config">>
      [] label = <<"data">> -> <<"Data">>
      [] label = <<"examples">> -> <<"Examples">>
      [] label = <<"misc">> -> <<"Misc">>
      [] OTHER -> label

RECURSIVE ContextListLines(_, _, _, _)
ContextListLines(f, repo_path, context_files, category) ==
    IF context_files = <<>> THEN Return(<<>>)
    ELSE LET context_file == Head(context_files)
             one ==
                IF context_file.t # "str" THEN Raise("TypeError", "truediv")
                ELSE LET file_path == JoinPath(repo_path, ParsePath(context_file.s))
                     IN  IF ~ShouldIncludeFile(file_path, category)
                         THEN Return(<<>>)
                         ELSE LET file_content == ReadFileContent(f, file_path)
                              IN  IF Truthy(file_content)
                                  THEN Return(FormatFileSection(
                                           file_path, file_content.val.s, category))
                                  ELSE Return(<<>>)
         IN  Both(one, ContextListLines(f, repo_path, Tail(context_files), category))

\* iter(value): the entries of a list, the keys of a mapping, the
\* characters of a string (token by token); nothing else iterates
Iterate(v) ==
    CASE v.t = "list" -> Return(v.l)
      [] v.t = "map" -> Return([i \in 1..Len(v.items) |-> YStr(v.items[i].key)])
      [] v.t = "str" -> Return([i \in 1..Len(v.s) |-> YStr(<<v.s[i]>>)])
      [] OTHER -> Raise("TypeError", "iter")

RECURSIVE ContextItemsLinesNoSkip(_, _, _)
\* the context-file loop without the skip of 'code' and 'tests'
ContextItemsLinesNoSkip(f, repo_path, items) ==
    IF items = <<>> THEN Return(<<>>)
    ELSE LET context_category == Head(items).key
             context_files == Head(items).value
             this ==
                IF Raised(Iterate(context_files))
                THEN Iterate(context_files)
                ELSE Both(Return(<<[k |-> "category_heading",
                                    label |-> Title(context_category)]>>),
                          ContextListLines(f, repo_path, Iterate(context_files).val,
                                           context_category))
         IN  Both(this, ContextItemsLinesNoSkip(f, repo_path, Tail(items)))

RECURSIVE ContextItemsLines(_, _, _)
ContextItemsLines(f, repo_path, items) ==
    IF items = <<>> THEN Return(<<>>)
    ELSE LET context_category == Head(items).key
             context_files == Head(items).value
             this ==
                IF context_category \in {<<"code">>, <<"tests">>} THEN Return(<<>>)
                ELSE IF Raised(Iterate(context_files))
                     THEN Iterate(context_files)
                ELSE Both(Return(<<[k |-> "category_heading",
                                    label |-> Title(context_category)]>>),
                          ContextListLines(f, repo_path, Iterate(context_files).val,
                                           context_category))
         IN  Both(this, ContextItemsLines(f, repo_path, Tail(items)))

\* collect.py 204-222: the context-file group
ContextLines(f, repo_path, repo_config) ==
    IF ~HasKey(repo_config, "context_files") THEN Return(<<>>)
    ELSE IF Get(repo_config, "context_files").t # "map"
         THEN Raise("AttributeError", "items")
    ELSE Both(Return(<<[k |-> "context_heading"]>>),
              ContextItemsLines(f, repo_path, Get(repo_config, "context_files").items))

\* the calls of _read_file_content made so far, and whether an exception
\* has ended the loop
ReadsThen(a, b) ==
    IF a.raised THEN a
    ELSE [reads |-> a.reads \o b.reads, raised |-> b.raised]

RECURSIVE ContextListReads(_, _, _)
\* collect.py 213-220: the paths of one category that reach the Content
\* Reader, which are those the policy admits
ContextListReads(repo_path, context_files, category) ==
    IF context_files = <<>> THEN [reads |-> <<>>, raised |-> FALSE]
    ELSE LET context_file == Head(context_files)
             one ==
                IF context_file.t # "str" THEN [reads |-> <<>>, raised |-> TRUE]
                ELSE LET file_path == JoinPath(repo_path, ParsePath(context_file.s))
                     IN  IF ~ShouldIncludeFile(file_path, category)
                         THEN [reads |-> <<>>, raised |-> FALSE]
                         ELSE [reads |-> <<file_path>>, raised |-> FALSE]
         IN  ReadsThen(one, ContextListReads(repo_path, Tail(context_files), category))

RECURSIVE ContextReads(_, _)
\* collect.py 207-220: the paths the context-file step hands to the
\* Content Reader, in order
ContextReads(repo_path, items) ==
    IF items = <<>> THEN [reads |-> <<>>, raised |-> FALSE]
    ELSE LET context_category == Head(items).key
             context_files == Head(items).value
             this ==
                IF context_category \in {<<"code">>, <<"tests">>}
                THEN [reads |-> <<>>, raised |-> FALSE]
                ELSE IF Raised(Iterate(context_files))
                     THEN [reads |-> <<>>, raised |-> TRUE]
                ELSE ContextListReads(repo_path, Iterate(context_files).val,
                                      context_category)
         IN  ReadsThen(this, ContextReads(repo_path, Tail(items)))

\* collect.py 149-150: repo_config['name'], then the expanded
\* repo_config['path']; subscripting a value that is not a mapping raises
\* TypeError, a missing key KeyError
MandatoryFields(repo_config) ==
    IF repo_config.t # "map" THEN Raise("TypeError", "subscript")
    ELSE IF ~HasKey(repo_config, "name") THEN Raise("KeyError", "name")
    ELSE IF ~HasKey(repo_config, "path") THEN Raise("KeyError", "path")
    ELSE ExpandPath(Get(repo_config, "path"))

\* PanoramaCollector._collect_repo_files: the section, or the first
\* exception of its steps
CollectRepoFiles(f, repo_config) ==
    LET repo_path == MandatoryFields(repo_config)
    IN  IF Raised(repo_path) THEN repo_path
        ELSE LET description ==
                    IF HasKey(repo_config, "description")
                    THEN Get(repo_config, "description") ELSE DefaultDescription
             IN  Both(Both(Both(Both(
                    Return(BannerLines(Get(repo_config, "name"), description)),
                    MetadataLines(repo_config)),
                    StructureLines(f, repo_path.val)),
                    DocumentationLines(f, repo_path.val, repo_config)),
                    ContextLines(f, repo_path.val, repo_config))

-----------------------------------------------------------------------------
(* The Collection Orchestrator. *)

\* the document header; total is the repository count
HeaderLines(source, total) ==
    << [k |-> "title"], [k |-> "preamble"],
       [k |-> "generated_on", path |-> CwdDir],
       [k |-> "source", path |-> source],
       [k |-> "total", n |-> total],
       [k |-> "note"] >>

FooterLines ==
    << RuleLine, [k |-> "h1", v |-> YStr(<<"End of Panorama Context">>)], RuleLine >>

\* repo_config.get('name', 'unknown'); a value that is not a mapping has no
\* .get and the lookup raises AttributeError
NameOrUnknown(repo_config) ==
    IF repo_config.t # "map" THEN Raise("AttributeError", "get")
    ELSE IF HasKey(repo_config, "name") THEN Return(Get(repo_config, "name"))
    ELSE Return(YStr(<<"unknown">>))

\* the inline error block
ErrorLines(repo_name, e) ==
    << [k |-> "error_heading"], [k |-> "error_repository", v |-> repo_name],
       [k |-> "error_detail", e |-> e] >>

\* self.repos_data.get('repos', [])
ReposOf(data) ==
    IF data.t # "map" THEN Raise("AttributeError", "get")
    ELSE IF HasKey(data, "repos") THEN Return(Get(data, "repos"))
    ELSE Return(YList(<<>>))

-----------------------------------------------------------------------------
(* A collection run: collect_all on a manifest drawn from the descriptors  *)
(* below, over a filesystem holding roots of every kind.                   *)

AlphaRoot == Append(HomeDir, <<"alpha">>)

SrvDir == <<RootName, <<"srv">>>>

\* ~/alpha holds files of every kind the reader distinguishes; /srv/beta is
\* empty, /srv/locked cannot be listed, /srv/notes.txt is a regular file
\* and /srv/missing does not exist
World ==
    [p \in {<<RootName>>, SrvDir, CwdDir, <<RootName, <<"home">>>>, HomeDir} |->
        DirNode(TRUE)]
    @@ (AlphaRoot :> DirNode(TRUE))
    @@ (Append(AlphaRoot, <<"README", ".", "md">>) :> FileNode(TRUE, <<"48">>))
    @@ (Append(AlphaRoot, <<"EMPTY", ".", "md">>) :> FileNode(TRUE, <<>>))
    @@ (Append(AlphaRoot, <<"BLANK", ".", "md">>) :> FileNode(TRUE, <<"20">>))
    @@ (Append(AlphaRoot, <<"logo", ".", "bin">>) :> FileNode(TRUE, <<"FF">>))
    @@ (Append(AlphaRoot, <<"notes", ".", "txt">>) :> FileNode(FALSE, <<"48">>))
    @@ (Append(AlphaRoot, <<"config", ".", "yaml">>) :> FileNode(TRUE, <<"48", "48">>))
    @@ (Append(AlphaRoot, <<"main", ".", "py">>) :> FileNode(TRUE, <<"48">>))
    @@ (Append(AlphaRoot, <<"schema", ".", "bin">>) :> FileNode(TRUE, <<"C3", "A9">>))
    @@ (Append(AlphaRoot, <<"docs">>) :> DirNode(TRUE))
    @@ (AlphaRoot \o <<<<"docs">>, <<"api", ".", "md">>>> :> FileNode(TRUE, <<"48", "20">>))
    @@ (Append(AlphaRoot, <<".", "git">>) :> DirNode(TRUE))
    @@ (Append(SrvDir, <<"beta">>) :> DirNode(TRUE))
    @@ (Append(SrvDir, <<"locked">>) :> DirNode(FALSE))
    @@ (Append(SrvDir, <<"notes", ".", "txt">>) :> FileNode(TRUE, <<"48">>))

S(tok) == YStr(<<tok>>)

AlphaPath == YStr(<<"~", "/", "alpha">>)

SrvPath(name) == YStr(<<"/", "srv", "/">> \o name)

File(stem, ext) == YStr(<<stem, ".", ext>>)

\* a documentation group in which every kind of read fails next to reads
\* that succeed
MixedDocs ==
    YMap(<< Item("guide", File("README", "md")),
            Item("api", YList(<< File("missing", "md"), File("EMPTY", "md"),
                                 YStr(<<"docs", "/", "api", ".", "md">>),
                                 File("BLANK", "md"), File("logo", "bin"),
                                 S("docs"), File("notes", "txt"),
                                 File("schema", "bin") >>)) >>)

MixedContext ==
    YMap(<< Item("config", YList(<< File("config", "yaml"), File("main", "py"),
                                    File("missing", "yaml") >>)),
            Item("code", YList(<< File("main", "py") >>)),
            Item("data", YList(<< File("schema", "bin"), File("logo", "bin") >>)),
            Item("misc", YList(<< File("README", "md"), File("EMPTY", "md") >>)) >>)

DFull ==
    YMap(<< Item("name", S("alpha")), Item("path", AlphaPath),
            Item("description", S("the alpha repository")),
            Item("remotes", YMap(<< Item("origin", S("git@host:alpha")) >>)),
            Item("type", S("library")),
            Item("integration_quality",
                 YMap(<< Item("notes", S("stable")), Item("test_coverage", YInt(80)) >>)),
            Item("documentation", MixedDocs),
            Item("context_files", MixedContext) >>)

\* an empty repository
DBeta ==
    YMap(<< Item("name", S("beta")), Item("path", SrvPath(<<"beta">>)),
            Item("description", S("the beta repository")) >>)

DNoPath == YMap(<< Item("name", S("gamma")), Item("type", S("service")) >>)

DNoName == YMap(<< Item("path", AlphaPath) >>)

DMissingRoot ==
    YMap(<< Item("name", S("delta")), Item("path", SrvPath(<<"missing">>)) >>)

DLocked == YMap(<< Item("name", S("locked")), Item("path", SrvPath(<<"locked">>)) >>)

\* `api: [README.md, <null>, docs/api.md]`: the second entry cannot be
\* joined to the root
DNullFile ==
    YMap(<< Item("name", S("epsilon")), Item("path", AlphaPath),
            Item("documentation",
                 YMap(<< Item("api", YList(<< File("README", "md"), YNull,
                                             YStr(<<"docs", "/", "api", ".", "md">>) >>)) >>)) >>)

\* every declared file fails to read
DUnreadable ==
    YMap(<< Item("name", S("zeta")), Item("path", AlphaPath),
            Item("documentation",
                 YMap(<< Item("guide", File("missing", "md")),
                         Item("api", YList(<< File("EMPTY", "md"),
                                              File("logo", "bin") >>)) >>)) >>)

\* a manifest entry that is a plain string, not a mapping
DScalar == S("eta")

Descriptors ==
    {DFull, DBeta, DNoPath, DNoName, DMissingRoot, DLocked, DNullFile, DUnreadable,
     DScalar}

Manifests == UNION {[1..n -> Descriptors] : n \in 0..MaxRepos}

ReposYamlPath == <<<<"config">>, <<"repos", ".", "yaml">>>>

Init ==
    /\ pc = "collect_all"
    /\ fs = World
    /\ repos_data \in {YMap(<<Item("repos", YList(m))>>) : m \in Manifests}
    /\ idx = 0
    /\ content = <<>>
    /\ result = None
    /\ call = [source |-> ReposYamlPath]
    /\ ret = None

Repos == ReposOf(repos_data).val.l

\* collect.py 228-242: the header, then the list to iterate
Header ==
    /\ pc = "collect_all"
    /\ repos_data.t = "map"
    /\ ReposOf(repos_data).val.t = "list"
    /\ content' = HeaderLines(call.source, Len(Repos))
    /\ pc' = "for_repo"
    /\ UNCHANGED <<fs, repos_data, idx, result, call, ret>>

\* the iteration with repositories deduplicated: a descriptor met before
\* adds nothing
RepoCollectedOnce ==
    /\ pc = "for_repo"
    /\ idx < Len(Repos)
    /\ LET r == CollectRepoFiles(fs, Repos[idx + 1])
       IN  /\ ~Raised(r)
           /\ result' = r
           /\ content' = IF \E j \in 1..idx : Repos[j] = Repos[idx + 1]
                         THEN content ELSE content \o r.val
    /\ idx' = idx + 1
    /\ UNCHANGED <<pc, fs, repos_data, call, ret>>

\* collect.py 243-251: one iteration whose _collect_repo_files returns
RepoCollected ==
    /\ pc = "for_repo"
    /\ idx < Len(Repos)
    /\ LET r == CollectRepoFiles(fs, Repos[idx + 1])
       IN  /\ ~Raised(r)
           /\ result' = r
           /\ content' = content \o r.val
    /\ idx' = idx + 1
    /\ UNCHANGED <<pc, fs, repos_data, call, ret>>

\* the iteration with the section accumulated in the document itself: a
\* failed aggregation leaves the start of its banner before the error block
RepoFailedPartial ==
    /\ pc = "for_repo"
    /\ idx < Len(Repos)
    /\ LET r == CollectRepoFiles(fs, Repos[idx + 1])
           repo_name == NameOrUnknown(Repos[idx + 1])
       IN  /\ Raised(r)
           /\ result' = r
           /\ IF Raised(repo_name)
              THEN /\ pc' = "raised"
                   /\ ret' = repo_name
                   /\ UNCHANGED <<content, idx>>
              ELSE /\ content' = content \o <<RuleLine>>
                                    \o ErrorLines(repo_name.val, r)
                   /\ idx' = idx + 1
                   /\ UNCHANGED <<pc, ret>>
    /\ UNCHANGED <<fs, repos_data, call>>

\* collect.py 243-251: one iteration whose _collect_repo_files raises; the
\* handler looks the name up with .get, and an exception of that lookup
\* leaves the handler and collect_all
RepoFailed ==
    /\ pc = "for_repo"
    /\ idx < Len(Repos)
    /\ LET r == CollectRepoFiles(fs, Repos[idx + 1])
           repo_name == NameOrUnknown(Repos[idx + 1])
       IN  /\ Raised(r)
           /\ result' = r
           /\ IF Raised(repo_name)
              THEN /\ pc' = "raised"
                   /\ ret' = repo_name
                   /\ UNCHANGED <<content, idx>>
              ELSE /\ content' = content \o ErrorLines(repo_name.val, r)
                   /\ idx' = idx + 1
                   /\ UNCHANGED <<pc, ret>>
    /\ UNCHANGED <<fs, repos_data, call>>

\* collect.py 253-258: the footer and the return
Footer ==
    /\ pc = "for_repo"
    /\ idx = Len(Repos)
    /\ content' = content \o FooterLines
    /\ ret' = Return(content')
    /\ pc' = "returned"
    /\ UNCHANGED <<fs, repos_data, idx, result, call>>

Next == Header \/ RepoCollected \/ RepoFailed \/ Footer

Spec == Init /\ [][Next]_vars

-----------------------------------------------------------------------------
(* A run of main: the collector is constructed on a manifest file, the     *)
(* document is collected and written.  A manifest file that parses holds   *)
(* one line, the document it denotes; the empty file is the empty          *)
(* document.                                                               *)

\* the text of a manifest: a document that parses, or one that does not
YamlText(value) == <<[k |-> "yaml", doc |-> value]>>

YamlBroken == <<[k |-> "yaml_unterminated"]>>

\* yaml.safe_load: the value of the document, None for the empty document,
\* YAMLError for text that is not YAML
SafeLoad(text) ==
    IF text = <<>> THEN Return(YNull)
    ELSE IF text[1].k = "yaml" THEN Return(text[1].doc)
    ELSE Raise("YAMLError", "safe_load")

SysExit(detail) == Raise("SystemExit", detail)

\* the exit status of the process: 1 for sys.exit(1) and for an exception
\* that nothing catches, 0 when main returns
ExitStatus(r) == IF Raised(r) THEN 1 ELSE 0

\* PanoramaCollector._load_repos_yaml: only FileNotFoundError and YAMLError
\* are turned into sys.exit(1)
LoadReposYaml(f, repos_yaml_path) ==
    IF ~Exists(f, repos_yaml_path) THEN SysExit("repos.yaml not found")
    ELSE IF f[repos_yaml_path].kind = "dir" THEN Raise("IsADirectoryError", "open")
    ELSE IF ~f[repos_yaml_path].readable THEN Raise("PermissionError", "open")
    ELSE IF Raised(SafeLoad(f[repos_yaml_path].bytes))
         THEN SysExit("Error parsing repos.yaml")
    ELSE SafeLoad(f[repos_yaml_path].bytes)

\* Path.mkdir(exist_ok=True): the filesystem afterwards, or the exception
Mkdir(f, p) ==
    IF IsDir(f, p) THEN Return(f)
    ELSE IF Exists(f, p) THEN Raise("FileExistsError", "mkdir")
    ELSE IF ~IsDir(f, SubSeq(p, 1, Len(p) - 1)) THEN Raise("FileNotFoundError", "mkdir")
    ELSE Return(f @@ (p :> DirNode(TRUE)))

\* the characters of a text that is written: 'H', space and U+00E9
Char(c) == [k |-> "char", c |-> c]

\* str.encode('utf-8'), one character or one line of the document at a time
Utf8EncodeOne(x) ==
    IF x.k = "char"
    THEN CASE x.c = "H" -> <<"48">>
           [] x.c = " " -> <<"20">>
           [] OTHER -> <<"C3", "A9">>
    ELSE <<[k |-> "utf8", of |-> x]>>

RECURSIVE Utf8Encode(_)
Utf8Encode(text) ==
    IF text = <<>> THEN <<>>
    ELSE Utf8EncodeOne(Head(text)) \o Utf8Encode(Tail(text))

ContextMd == <<"context", ".", "md">>

ContextJson == <<"context", ".", "json">>

\* open(output_file, 'w', encoding='utf-8'): the file is created or
\* truncated, unless the path is a directory, its directory is missing or
\* the permissions of an existing file deny it
OpenWrite(f, p) ==
    IF IsDir(f, p) THEN Raise("IsADirectoryError", "open")
    ELSE IF ~IsDir(f, SubSeq(p, 1, Len(p) - 1)) THEN Raise("FileNotFoundError", "open")
    ELSE IF IsFile(f, p) /\ ~f[p].readable THEN Raise("PermissionError", "open")
    ELSE Return([q \in DOMAIN f \cup {p} |-> IF q = p THEN FileNode(TRUE, <<>>) ELSE f[q]])

\* the writer with an unknown format taken for the default one
WriteOutputDefaultMd(f, output_dir, text, output_format) ==
    LET output_file ==
            Append(output_dir, IF output_format = "json" THEN ContextJson ELSE ContextMd)
        opened == OpenWrite(f, output_file)
    IN  IF Raised(opened)
        THEN [out |-> SysExit("Error writing output file"), fs |-> f]
        ELSE [out |-> None,
              fs |-> [opened.val EXCEPT ![output_file] = FileNode(TRUE, Utf8Encode(text))]]

\* PanoramaCollector.write_output: what it returns or raises, and the
\* filesystem afterwards
WriteOutput(f, output_dir, text, output_format) ==
    IF output_format \notin {"md", "json"}
    THEN [out |-> Raise("ValueError", "Unsupported output format"), fs |-> f]
    ELSE LET output_file ==
                Append(output_dir, IF output_format = "md" THEN ContextMd ELSE ContextJson)
             opened == OpenWrite(f, output_file)
         IN  IF Raised(opened)
             THEN [out |-> SysExit("Error writing output file"), fs |-> f]
             ELSE [out |-> None,
                   fs |-> [opened.val EXCEPT
                              ![output_file] = FileNode(TRUE, Utf8Encode(text))]]

\* len(self.repos_data.get('repos', [])), collect.py 237
ReposLen(data) ==
    LET repos == ReposOf(data)
    IN  IF Raised(repos) THEN repos
        ELSE IF repos.val.t = "list" THEN Return(Len(repos.val.l))
        ELSE Raise("TypeError", "len")

OutputDir == <<<<"output">>>>

OutputRoot == JoinPath(CwdDir, OutputDir)

ManifestFile == JoinPath(CwdDir, ReposYamlPath)

\* the descriptors of the manifests a run of main draws
MainDescriptors == {DFull, DNoPath, DScalar}

MainManifests == UNION {[1..n -> MainDescriptors] : n \in 0..MaxRepos}

\* text that is not YAML, the empty document, a top-level list, a mapping
\* without `repos`, `repos:` left empty, and the manifests proper
ManifestTexts ==
    {YamlBroken, <<>>, YamlText(YList(<<>>)), YamlText(YMap(<<>>)),
     YamlText(YMap(<<Item("repos", YNull)>>))}
    \cup {YamlText(YMap(<<Item("repos", YList(mf))>>)) : mf \in MainManifests}

\* no manifest file, or one of each text
ManifestStates ==
    {<<>> :> 0} \cup {ManifestFile :> FileNode(TRUE, text) : text \in ManifestTexts}

\* the output directory: missing, empty, holding an artifact of an earlier
\* run, holding a directory where the artifact goes, or being a file itself
OutputStates ==
    { <<>> :> 0,
      OutputRoot :> DirNode(TRUE),
      (OutputRoot :> DirNode(TRUE))
          @@ (Append(OutputRoot, ContextMd) :> FileNode(TRUE, <<"48">>)),
      (OutputRoot :> DirNode(TRUE))
          @@ (Append(OutputRoot, ContextMd) :> DirNode(TRUE)),
      (OutputRoot :> DirNode(TRUE))
          @@ (Append(OutputRoot, ContextJson) :> DirNode(TRUE)),
      OutputRoot :> FileNode(TRUE, <<>>) }

Without(f, p) == [q \in DOMAIN f \ {p} |-> f[q]]

MainWorlds ==
    {Without(ms @@ os @@ (Append(CwdDir, <<"config">>) :> DirNode(TRUE)) @@ World, <<>>) :
        ms \in ManifestStates, os \in OutputStates}

InitMain ==
    /\ pc = "main"
    /\ fs \in MainWorlds
    /\ call \in {[source |-> ReposYamlPath, output_dir |-> OutputDir,
                  format |-> fm, before |-> fs] : fm \in {"md", "json"}}
    /\ ret = None
    /\ Idle

\* PanoramaCollector.__init__ as main calls it: the output directory is
\* made, then the manifest loaded
Construct ==
    /\ pc = "main"
    /\ LET made == Mkdir(fs, JoinPath(CwdDir, call.output_dir))
       IN  IF Raised(made)
           THEN /\ pc' = "exited"
                /\ ret' = made
                /\ UNCHANGED <<fs, repos_data>>
           ELSE LET loaded == LoadReposYaml(made.val, JoinPath(CwdDir, call.source))
                IN  /\ fs' = made.val
                    /\ IF Raised(loaded)
                       THEN /\ pc' = "exited"
                            /\ ret' = loaded
                            /\ UNCHANGED repos_data
                       ELSE /\ pc' = "collect_all"
                            /\ repos_data' = loaded.val
                            /\ UNCHANGED ret
    /\ UNCHANGED <<idx, content, result, call>>

\* collect.py 237: the header cannot be built, collect_all raises
HeaderFailed ==
    /\ pc = "collect_all"
    /\ Raised(ReposLen(repos_data))
    /\ pc' = "raised"
    /\ ret' = ReposLen(repos_data)
    /\ UNCHANGED <<fs, repos_data, idx, content, result, call>>

\* collect.py 312: nothing in main catches what collect_all raises
Uncaught ==
    /\ pc = "raised"
    /\ pc' = "exited"
    /\ UNCHANGED <<fs, repos_data, idx, content, result, call, ret>>

\* collect.py 313-315: the document is written and main returns, or the
\* writer ends the process
WriteAndReturn ==
    /\ pc = "returned"
    /\ LET w == WriteOutput(fs, JoinPath(CwdDir, call.output_dir), content, call.format)
       IN  /\ fs' = w.fs
           /\ ret' = w.out
    /\ pc' = "exited"
    /\ UNCHANGED <<repos_data, idx, content, result, call>>

NextMain ==
    \/ Construct \/ Header \/ HeaderFailed \/ RepoCollected \/ RepoFailed
    \/ Footer \/ Uncaught \/ WriteAndReturn

SpecMain == InitMain /\ [][NextMain]_vars

-----------------------------------------------------------------------------

(* write_output runs: one call on a collector whose output directory the   *)
(* constructor has made.                                                   *)

Chars == {Char("H"), Char(" "), Char("e'")}

Texts == UNION {[1..n -> Chars] : n \in 0..MaxText}

\* the artifact of the textual mode is missing, left by an earlier run, a
\* directory, or a file that the permissions protect; that of the
\* structured mode is missing or left by an earlier run
WriteWorlds ==
    LET base == (<<RootName>> :> DirNode(TRUE)) @@ (CwdDir :> DirNode(TRUE))
                @@ (OutputRoot :> DirNode(TRUE))
        md == Append(OutputRoot, ContextMd)
        json == Append(OutputRoot, ContextJson)
    IN  {Without(a @@ b @@ base, <<>>) :
            a \in {<<>> :> 0, md :> FileNode(TRUE, <<"20", "48">>), md :> DirNode(TRUE),
                   md :> FileNode(FALSE, <<"48">>)},
            b \in {<<>> :> 0, json :> FileNode(TRUE, <<"48">>)}}

OutputFormats == {"md", "json", "txt", "MD", ""}

InitWrite ==
    /\ pc = "write"
    /\ fs \in WriteWorlds
    /\ call \in {[content |-> text, output_format |-> fm, before |-> fs] :
                    text \in Texts, fm \in OutputFormats}
    /\ ret = None
    /\ Idle

DoWrite ==
    /\ pc = "write"
    /\ LET w == WriteOutput(fs, OutputRoot, call.content, call.output_format)
       IN  /\ fs' = w.fs
           /\ ret' = w.out
    /\ pc' = "write_done"
    /\ UNCHANGED <<repos_data, idx, content, result, call>>

NextWrite == DoWrite

SpecWrite == InitWrite /\ [][NextWrite]_vars

-----------------------------------------------------------------------------

(* Repository Aggregator runs: one call of _collect_repo_files on a        *)
(* descriptor assembled from every combination of the field values below.  *)

\* a field that the descriptor does not hold
Absent == [t |-> "absent"]

Opt(key, value) == IF value = Absent THEN <<>> ELSE <<Item(key, value)>>

NameValues == {Absent, S("alpha")}

PathValues ==
    {Absent, AlphaPath, SrvPath(<<"beta">>), SrvPath(<<"missing">>),
     SrvPath(<<"locked">>), SrvPath(<<"notes", ".", "txt">>), YInt(42)}

DescriptionValues == {Absent, S("the alpha repository")}

RemotesValues ==
    {Absent, YMap(<< Item("origin", S("git@host:alpha")) >>), YList(<< S("origin") >>)}

TypeValues == {Absent, S("library")}

QualityValues ==
    {Absent, YMap(<< Item("test_coverage", YInt(80)) >>),
     YMap(<< Item("notes", S("stable")), Item("test_coverage", YInt(80)) >>),
     S("good")}

DocumentationValues ==
    {Absent, MixedDocs, Get(DUnreadable, "documentation"),
     Get(DNullFile, "documentation"),
     YMap(<< Item("guide", YNull), Item("api", File("README", "md")) >>),
     YList(<< File("README", "md") >>)}

ContextValues ==
    {Absent, MixedContext,
     YMap(<< Item("config", YList(<< File("config", "yaml"), YInt(7) >>)) >>),
     YMap(<< Item("tests", YNull), Item("config", YNull) >>),
     YMap(<< Item("code", YNull), Item("misc", YList(<< File("README", "md") >>)) >>),
     YMap(<< Item("misc", File("README", "md")) >>),
     S("config.yaml")}

AggDescriptors ==
    {YMap(Opt("name", n) \o Opt("path", p) \o Opt("description", d)
          \o Opt("remotes", r) \o Opt("type", ty) \o Opt("integration_quality", q)
          \o Opt("documentation", doc) \o Opt("context_files", ctx)) :
        n \in NameValues, p \in PathValues, d \in DescriptionValues,
        r \in RemotesValues, ty \in TypeValues, q \in QualityValues,
        doc \in DocumentationValues, ctx \in ContextValues}
    \cup {DScalar, YNull, YList(<<>>)}

InitAggregate ==
    /\ pc = "aggregate"
    /\ fs = World
    /\ call \in [repo_config : AggDescriptors]
    /\ ret = None
    /\ Idle

DoAggregate ==
    /\ pc = "aggregate"
    /\ ret' = CollectRepoFiles(fs, call.repo_config)
    /\ pc' = "aggregate_done"
    /\ UNCHANGED <<fs, repos_data, idx, content, result, call>>

NextAggregate == DoAggregate

SpecAggregate == InitAggregate /\ [][NextAggregate]_vars

-----------------------------------------------------------------------------
(* Unit runs: one call of one method on inputs drawn from a bounded set.   *)

ByteStrings == UNION {[1..n -> Bytes] : n \in 0..MaxBytes}

ReadDir == <<RootName, <<"tmp">>>>

ReadTarget == ReadDir \o <<<<"f", ".", "md">>>>

\* the states of the filesystem at the path that is read: absent, a
\* directory, an unreadable file, a readable file of any content
ReadWorlds ==
    LET base == (ReadDir :> DirNode(TRUE))
    IN  {base, base @@ (ReadTarget :> DirNode(TRUE))}
        \cup {base @@ (ReadTarget :> FileNode(r, b)) : r \in BOOLEAN, b \in ByteStrings}

InitRead ==
    /\ pc = "read"
    /\ fs \in ReadWorlds
    /\ call = [file_path |-> ReadTarget, before |-> fs]
    /\ ret = None
    /\ Idle

DoRead ==
    /\ pc = "read"
    /\ ret' = ReadFileContent(fs, call.file_path)
    /\ pc' = "read_done"
    /\ UNCHANGED <<fs, repos_data, idx, content, result, call>>

NextRead == DoRead

SpecRead == InitRead /\ [][NextRead]_vars

PolicyDirs == {<<RootName, <<"repo">>>>, <<RootName, <<"schemas">>, <<"repo">>>>}

PolicyNames ==
    { <<"README", ".", "md">>, <<"config", ".", "yaml">>, <<"ci", ".", "yml">>,
      <<"data", ".", "json">>, <<"notes", ".", "txt">>, <<"main", ".", "py">>,
      <<"logo", ".", "bin">>, <<"Makefile">>, <<".", "env">>, <<".", "yaml">>,
      <<"user_schema", ".", "py">>, <<"notes", ".">>, <<"CONFIG", ".", "YAML">>,
      <<"archive", ".", "json", ".", "gz">> }

PolicyPaths == {Append(d, n) : d \in PolicyDirs, n \in PolicyNames}

Categories ==
    { <<"documentation">>, <<"documentation", "/", "api">>, <<"documentation", "s">>,
      <<"docs">>, <<"config">>, <<"configs">>, <<"data">>, <<"examples">>,
      <<"code">>, <<"tests">>, <<"misc">>, <<"Code">> }

InitPolicy ==
    /\ pc = "policy"
    /\ fs = (ReadDir :> DirNode(TRUE))
    /\ call \in [file_path : PolicyPaths, category : Categories]
    /\ ret = None
    /\ Idle

DoPolicy ==
    /\ pc = "policy"
    /\ ret' = Return(YBool(ShouldIncludeFile(call.file_path, call.category)))
    /\ pc' = "policy_done"
    /\ UNCHANGED <<fs, repos_data, idx, content, result, call>>

NextPolicy == DoPolicy

SpecPolicy == InitPolicy /\ [][NextPolicy]_vars

-----------------------------------------------------------------------------
(* Section Formatter runs: one call, and the same call once more.          *)

FormatNames ==
    PolicyNames \cup {<<"README", ".", "MD">>, <<"x", ".", "Md">>, <<"ci", ".", "YML">>,
                      <<"data", ".", "JSON">>, <<"notes", ".", "TXT">>}

FormatPaths ==
    {Append(d, n) : d \in PolicyDirs, n \in FormatNames} \cup {<<<<"README", ".", "md">>>>}

\* texts of 'H', space and U+00E9, the empty and the blank ones included
FormatTexts == UNION {[1..n -> {"H", " ", "e'"}] : n \in 0..MaxBytes}

FormatCategories ==
    {<<"documentation", "/", "api">>, <<"config">>, <<"misc">>, <<>>}

InitFormat ==
    /\ pc = "format"
    /\ fs = (ReadDir :> DirNode(TRUE))
    /\ call \in [file_path : FormatPaths, content : FormatTexts,
                 category : FormatCategories]
    /\ ret = None
    /\ Idle

DoFormat ==
    /\ pc = "format"
    /\ ret' = Return(FormatFileSection(call.file_path, call.content, call.category))
    /\ pc' = "format_once"
    /\ UNCHANGED <<fs, repos_data, idx, content, result, call>>

DoFormatAgain ==
    /\ pc = "format_once"
    /\ result' = Return(FormatFileSection(call.file_path, call.content, call.category))
    /\ pc' = "format_twice"
    /\ UNCHANGED <<fs, repos_data, idx, content, call, ret>>

NextFormat == DoFormat \/ DoFormatAgain

SpecFormat == InitFormat /\ [][NextFormat]_vars

-----------------------------------------------------------------------------

(* C7.  The six rules of the Inclusion Policy, first match wins. *)

PolicyRule(path, category) ==
    CASE StartsWith(category, <<"documentation">>) -> 1
      [] category = <<"config">> -> 2
      [] category = <<"data">> /\ SchemaInPath(path) -> 3
      [] category = <<"examples">> -> 4
      [] category \in {<<"code">>, <<"tests">>} -> 5
      [] OTHER -> 6

PolicyTable(path, category) ==
    LET rule == PolicyRule(path, category)
        sfx == PathSuffix(path)
    IN  \/ rule \in {1, 3}
        \/ rule = 2 /\ sfx \in {Dot("yaml"), Dot("yml"), Dot("json"), Dot("txt")}
        \/ rule \in {4, 6}
             /\ sfx \in {Dot("md"), Dot("yaml"), Dot("yml"), Dot("json"), Dot("txt")}

\* C7: for every path and category, _should_include_file returns what the
\* six-rule first-match table gives for these two arguments.
C7_PolicyMatchesTable ==
    pc = "policy_done" =>
        ret = Return(YBool(PolicyTable(call.file_path, call.category)))

\* a 'config' file with an .md suffix has been rejected (rule 2 applies, not 6)
C7_Witness ==
    /\ pc = "policy_done"
    /\ call.category = <<"config">>
    /\ PathName(call.file_path) = <<"README", ".", "md">>
    /\ ret = Return(YBool(FALSE))

-----------------------------------------------------------------------------
(* C8.  The Content Reader is total. *)

AllWhitespace(text) == \A i \in 1..Len(text) : text[i] \in Whitespace

\* the conditions under which the reader has nothing to return
ReadAbsent(f, p) ==
    \/ ~Exists(f, p)
    \/ f[p].kind = "dir"
    \/ ~f[p].readable
    \/ Raised(Utf8Decode(f[p].bytes))
    \/ AllWhitespace(Utf8Decode(f[p].bytes).val)

\* C8: the reader never raises; it returns None exactly when the path is
\* missing, is a directory or unreadable, does not decode as UTF-8 or holds
\* only whitespace, and otherwise the decoded text, which then has a
\* non-whitespace character; the filesystem is as it was before the call.
C8_ReaderTotal ==
    pc = "read_done" =>
        /\ ~Raised(ret)
        /\ ReadAbsent(fs, call.file_path) <=> (ret = None)
        /\ ~ReadAbsent(fs, call.file_path) =>
              /\ ret = Return(YStr(Utf8Decode(fs[call.file_path].bytes).val))
              /\ \E i \in 1..Len(ret.val.s) : ret.val.s[i] \notin Whitespace
        /\ fs = call.before

\* a readable file holding only whitespace has been read as absent
C8_Witness ==
    /\ pc = "read_done"
    /\ IsFile(fs, call.file_path)
    /\ fs[call.file_path].readable
    /\ fs[call.file_path].bytes = <<"20", "20">>
    /\ ret = None

-----------------------------------------------------------------------------
(* Tree Renderer runs: one call on a directory tree drawn from a family.   *)

TreeRoot == <<RootName, <<"srv">>, <<"repo">>>>

TreeAncestors == {<<RootName>>, <<RootName, <<"srv">>>>}

TopNames ==
    {<<"docs">>, <<".", "git">>, <<"build">>, <<"README", ".", "md">>,
     <<"logo", ".", "bin">>, <<".", "github">>, <<".", "notes", ".", "md">>}

InnerNames == {<<"guide", ".", "md">>, <<"node_modules">>}

TreeFileNames ==
    {<<"README", ".", "md">>, <<"logo", ".", "bin">>,
     <<".", "notes", ".", "md">>, <<"guide", ".", "md">>, <<"inner", ".", "md">>, <<"x", ".", "md">>}

\* path followed by k directories named n
Nested(path, k) == path \o [i \in 1..k |-> <<"n">>]

\* the paths of a tree: the entries `top` below the root; below each of them
\* that is a directory the entries `inner`, a file below node_modules, and
\* a chain of `nest` directories with a file in each
TreePaths(top, inner, nest) ==
    LET tops == {Append(TreeRoot, t) : t \in top}
        dirs == {d \in tops : PathName(d) \notin TreeFileNames}
    IN  TreeAncestors \cup {TreeRoot} \cup tops
        \cup {Append(d, i) : d \in dirs, i \in inner}
        \cup {d \o <<<<"node_modules">>, <<"inner", ".", "md">>>> :
                d \in {x \in dirs : <<"node_modules">> \in inner}}
        \cup {Nested(d, k) : d \in dirs, k \in 1..nest}
        \cup {Append(Nested(d, k), <<"x", ".", "md">>) : d \in dirs, k \in 1..nest}

\* the directory that cannot be listed: none, docs, or the deepest
\* directory of the chain below docs
DeniedPaths(nest, denied) ==
    CASE denied = "docs" -> {Append(TreeRoot, <<"docs">>)}
      [] denied = "deepest" -> {Nested(Append(TreeRoot, <<"docs">>), nest)}
      [] OTHER -> {}

\* the tree, with the directory `denied` names closed to listing
TreeWorld(top, inner, nest, denied) ==
    [p \in TreePaths(top, inner, nest) |->
        IF PathName(p) \in TreeFileNames THEN FileNode(TRUE, <<"48">>)
        ELSE DirNode(p \notin DeniedPaths(nest, denied))]

\* the root listable, denied, a regular file, or missing
TreeWorlds ==
    {TreeWorld(top, inner, nest, denied) :
        top \in SUBSET TopNames, inner \in SUBSET InnerNames,
        nest \in 0..MaxNest, denied \in {"none", "docs", "deepest"}}
    \cup {[p \in TreeAncestors \cup {TreeRoot} |->
            IF p = TreeRoot THEN n ELSE DirNode(TRUE)] :
            n \in {DirNode(FALSE), FileNode(TRUE, <<"48">>)}}
    \cup {[p \in TreeAncestors |-> DirNode(TRUE)]}

InitTree ==
    /\ pc = "tree"
    /\ fs \in TreeWorlds
    /\ call \in [repo_path : {TreeRoot}, max_depth : 0..(MaxNest + 1)]
    /\ ret = None
    /\ Idle

DoTree ==
    /\ pc = "tree"
    /\ ret' = GetFolderStructure(fs, call.repo_path, call.max_depth)
    /\ pc' = "tree_done"
    /\ UNCHANGED <<fs, repos_data, idx, content, result, call>>

NextTree == DoTree

SpecTree == InitTree /\ [][NextTree]_vars

-----------------------------------------------------------------------------
(* C5.  The fallback string of the Tree Renderer. *)

Listable(f, p) == IsDir(f, p) /\ f[p].listable

Denied(f, p) == IsDir(f, p) /\ ~f[p].listable

ExcludedName(name) ==
    \/ name # <<>> /\ name[1] = "."
    \/ name \in {<<"__pycache__">>, <<"node_modules">>, <<".", "git">>,
                 <<"build">>, <<"dist">>}

\* no entry directly below the root is rendered
NothingToRender(f, root) ==
    \A c \in Children(f, root) :
        \/ ExcludedName(PathName(c))
        \/ IsFile(f, c) /\ PathSuffix(c) \notin ShownSuffixes

\* C5 as stated: the fallback is returned whenever the root is empty or
\* listing the root is denied, and the empty string never is.
C5_FallbackWhenDenied ==
    pc = "tree_done" =>
        /\ ret # Return(<<>>)
        /\ Listable(fs, call.repo_path) /\ NothingToRender(fs, call.repo_path)
              => ret = Return(FallbackText)
        /\ Denied(fs, call.repo_path) => ret = Return(FallbackText)

\* C5, amended: the renderer returns the fallback exactly when the root can
\* be listed and nothing below it is rendered; when listing the root is
\* denied it returns the single 'permission denied' marker line instead;
\* whatever it returns is not the empty string.
C5_FallbackIffNoLines ==
    pc = "tree_done" /\ ~Raised(ret) =>
        /\ ret.val # <<>>
        /\ (ret.val = FallbackText) <=>
              (Listable(fs, call.repo_path) /\ NothingToRender(fs, call.repo_path))
        /\ Denied(fs, call.repo_path) => ret.val = <<LockLine(call.repo_path, 0)>>

\* a root holding only excluded and unlisted entries has given the fallback
C5_Witness ==
    /\ pc = "tree_done"
    /\ Children(fs, call.repo_path) =
          {Append(TreeRoot, <<".", "git">>), Append(TreeRoot, <<"logo", ".", "bin">>)}
    /\ ret = Return(FallbackText)

-----------------------------------------------------------------------------
(* C6.  Excluded entries and their subtrees. *)

\* the entry, or one of its ancestors below the root, has an excluded name
InExcludedSubtree(root, path) ==
    \E i \in (Len(root) + 1)..Len(path) : ExcludedName(path[i])

\* C6: no line of the listing belongs to an entry with an excluded name or
\* to a descendant of one, file or directory, at any depth.
C6_NoExcludedLines ==
    pc = "tree_done" /\ ~Raised(ret) =>
        \A i \in 1..Len(ret.val) :
            ret.val[i].k \in {"dir", "file", "lock"} =>
                ~InExcludedSubtree(call.repo_path, ret.val[i].of)

\* a tree with a hidden file of a listed suffix, a hidden directory, and
\* files of a listed suffix below .git and below node_modules has been listed
C6_Witness ==
    /\ pc = "tree_done"
    /\ call.max_depth = 3
    /\ Exists(fs, TreeRoot \o <<<<".", "git">>, <<"guide", ".", "md">>>>)
    /\ Exists(fs, TreeRoot \o <<<<"docs">>, <<"node_modules">>, <<"inner", ".", "md">>>>)
    /\ Exists(fs, Append(TreeRoot, <<".", "notes", ".", "md">>))
    /\ Exists(fs, TreeRoot \o <<<<".", "github">>, <<"guide", ".", "md">>>>)
    /\ ~Raised(ret)
    /\ \E i \in 1..Len(ret.val) : ret.val[i].k = "file" /\ ret.val[i].indent = 2

-----------------------------------------------------------------------------
(* The shape of a descriptor, stated on the descriptor alone. *)

IsStr(v) == v.t = "str"

\* a file entry, or a list of file entries, all of them strings
StrEntries(v) ==
    \/ IsStr(v)
    \/ v.t = "list" /\ \A i \in 1..Len(v.l) : IsStr(v.l[i])

MandatoryOk(d) ==
    /\ d.t = "map"
    /\ HasKey(d, "name")
    /\ HasKey(d, "path")
    /\ IsStr(Get(d, "path"))

MetaShapeOk(d) ==
    /\ HasKey(d, "remotes") => Get(d, "remotes").t = "map"
    /\ HasKey(d, "integration_quality") => Get(d, "integration_quality").t = "map"

\* the groups are mappings, and the context categories that are not skipped
\* hold something that iterates
GroupsOk(d) ==
    /\ HasKey(d, "documentation") => Get(d, "documentation").t = "map"
    /\ HasKey(d, "context_files") =>
          /\ Get(d, "context_files").t = "map"
          /\ \A i \in 1..Len(Get(d, "context_files").items) :
                LET it == Get(d, "context_files").items[i]
                IN  it.key \notin {<<"code">>, <<"tests">>} =>
                        it.value.t \in {"list", "str", "map"}

\* the entries a context category declares
ContextEntries(v) ==
    IF Raised(Iterate(v)) THEN {}
    ELSE {Iterate(v).val[i] : i \in 1..Len(Iterate(v).val)}

\* every declared file entry is a string
EntriesOk(d) ==
    /\ HasKey(d, "documentation") =>
          \A i \in 1..Len(Get(d, "documentation").items) :
              StrEntries(Get(d, "documentation").items[i].value)
    /\ HasKey(d, "context_files") =>
          \A i \in 1..Len(Get(d, "context_files").items) :
              LET it == Get(d, "context_files").items[i]
              IN  it.key \notin {<<"code">>, <<"tests">>} =>
                      \A e \in ContextEntries(it.value) : IsStr(e)

WellFormed(d) == MandatoryOk(d) /\ MetaShapeOk(d) /\ GroupsOk(d) /\ EntriesOk(d)

\* the resolved root of a descriptor whose path is a string
RootOf(d) == ExpandPath(Get(d, "path")).val

\* the name the orchestrator reports for a mapping
ReportedName(d) == IF HasKey(d, "name") THEN Get(d, "name") ELSE YStr(<<"unknown">>)

-----------------------------------------------------------------------------
(* The blocks of a document. *)

\* an identity banner starts at line i: rule, title, rule, description
BannerAt(doc, i) ==
    /\ i + 3 <= Len(doc)
    /\ doc[i].k = "rule"
    /\ doc[i + 1].k = "h1"
    /\ doc[i + 2].k = "rule"
    /\ doc[i + 3].k = "description"

\* an inline error block starts at line i
ErrorAt(doc, i) ==
    /\ i + 2 <= Len(doc)
    /\ doc[i].k = "error_heading"
    /\ doc[i + 1].k = "error_repository"
    /\ doc[i + 2].k = "error_detail"

RECURSIVE BlocksFrom(_, _)
\* the repository blocks of a document from line i on, in document order
BlocksFrom(doc, i) ==
    IF i > Len(doc) THEN <<>>
    ELSE IF BannerAt(doc, i)
         THEN <<[kind |-> "section", name |-> doc[i + 1].v, at |-> i]>>
              \o BlocksFrom(doc, i + 4)
    ELSE IF ErrorAt(doc, i)
         THEN <<[kind |-> "error", name |-> doc[i + 1].v, at |-> i]>>
              \o BlocksFrom(doc, i + 3)
    ELSE BlocksFrom(doc, i + 1)

Blocks(doc) == BlocksFrom(doc, 1)

EndsWithFooter(doc) ==
    /\ Len(doc) >= 3
    /\ SubSeq(doc, Len(doc) - 2, Len(doc)) = FooterLines

CountKind(bs, kind) == Cardinality({j \in 1..Len(bs) : bs[j].kind = kind})

-----------------------------------------------------------------------------
(* C1.  No descriptor aborts collect_all. *)

\* C1: collect_all never raises; a descriptor whose aggregation raised has
\* put an inline error block carrying its name, or 'unknown', and the error
\* at the end of the document, the run has gone on, and the document
\* returned covers every descriptor and ends with the footer.
C1_NeverAborts ==
    /\ pc # "raised"
    /\ pc = "for_repo" /\ idx >= 1 /\ Raised(result) =>
          /\ Len(content) >= 3
          /\ SubSeq(content, Len(content) - 2, Len(content))
                = ErrorLines(ReportedName(Repos[idx]), result)
    /\ pc = "returned" => idx = Len(Repos) /\ EndsWithFooter(content)

-----------------------------------------------------------------------------
(* C2.  One descriptor without `path` among well-formed ones. *)

LacksOnlyPath(d) == d.t = "map" /\ HasKey(d, "name") /\ ~HasKey(d, "path")

\* exactly one descriptor lacks `path`; the others are well-formed
OneLacksPath(repos) ==
    \E k \in 1..Len(repos) :
        /\ LacksOnlyPath(repos[k])
        /\ \A j \in 1..Len(repos) : j # k => WellFormed(repos[j])

\* C2: the document returned for N descriptors of which exactly one lacks
\* `path` holds N blocks, N-1 repository sections and 1 inline error
\* block, and ends with the footer.
C2_OneErrorBlock ==
    pc = "returned" /\ OneLacksPath(Repos) =>
        LET bs == Blocks(SubSeq(content, 1, Len(content) - 3))
        IN  /\ Len(bs) = Len(Repos)
            /\ CountKind(bs, "section") = Len(Repos) - 1
            /\ CountKind(bs, "error") = 1
            /\ EndsWithFooter(content)

-----------------------------------------------------------------------------
(* C3.  Manifest order. *)

\* C3: at every point of the run the document holds the header, then one
\* block per descriptor processed so far, in manifest order, each under the
\* name of its descriptor ('unknown' without one), duplicates included;
\* the document returned holds a block for every descriptor and the
\* footer after the last of them.
C3_ManifestOrder ==
    pc \in {"for_repo", "returned"} =>
        LET body == IF pc = "returned"
                    THEN SubSeq(content, 1, Len(content) - 3) ELSE content
            bs == Blocks(body)
        IN  /\ SubSeq(content, 1, 6) = HeaderLines(call.source, Len(Repos))
            /\ Blocks(SubSeq(content, 1, 6)) = <<>>
            /\ Len(bs) = idx
            /\ \A j \in 1..idx : bs[j].name = ReportedName(Repos[j])
            /\ \A j \in 1..(idx - 1) : bs[j].at < bs[j + 1].at
            /\ pc = "returned" => idx = Len(Repos) /\ EndsWithFooter(content)

\* a descriptor listed first and third, with a failing one between, has
\* been rendered twice
C3_Witness ==
    /\ pc = "returned"
    /\ Repos = <<DFull, DNoPath, DFull>>
    /\ CountKind(Blocks(content), "section") = 2
    /\ CountKind(Blocks(content), "error") = 1

-----------------------------------------------------------------------------
(* C4.  A root that does not exist. *)

\* C4: a well-formed descriptor whose path names no existing directory
\* yields a repository section whose structure block is the fallback.
C4_MissingRootSection ==
    pc \in {"for_repo", "returned"} /\ idx >= 1 /\ WellFormed(Repos[idx])
        /\ ~Exists(fs, RootOf(Repos[idx])) =>
        /\ ~Raised(result)
        /\ \E i \in 1..Len(result.val) :
              result.val[i].k = "structure" /\ result.val[i].lines = FallbackText

-----------------------------------------------------------------------------
(* C9.  What the Repository Aggregator raises. *)

HasLine(lines, kind) == \E i \in 1..Len(lines) : lines[i].k = kind

\* C9 as stated: _collect_repo_files returns a section for every descriptor.
C9_NeverRaises == pc = "aggregate_done" => ~Raised(ret)

\* C9, amended: _collect_repo_files returns a section exactly when the
\* descriptor is a mapping with `name` and a string `path` that names an
\* existing directory and every field it holds has the shape the code
\* expects (mappings for the groups and the metadata, lists of string
\* entries); in every other case it raises to the orchestrator.  A section
\* returned starts with the identity banner, holds one structure block and
\* the lines of exactly the optional fields the descriptor holds, with the
\* placeholder for a missing description.
C9_RaisesIffMalformed ==
    pc = "aggregate_done" =>
        LET d == call.repo_config
        IN  /\ Raised(ret) <=> ~(WellFormed(d) /\ IsDir(fs, RootOf(d)))
            /\ ~Raised(ret) =>
                  /\ BannerAt(ret.val, 1)
                  /\ ret.val[2].v = Get(d, "name")
                  /\ ret.val[4].v = IF HasKey(d, "description")
                                    THEN Get(d, "description") ELSE DefaultDescription
                  /\ Cardinality({i \in 1..Len(ret.val) : ret.val[i].k = "structure"}) = 1
                  /\ HasLine(ret.val, "remotes_heading") <=> HasKey(d, "remotes")
                  /\ HasLine(ret.val, "type") <=> HasKey(d, "type")
                  /\ HasLine(ret.val, "quality_heading") <=> HasKey(d, "integration_quality")
                  /\ HasLine(ret.val, "documentation_heading") <=> HasKey(d, "documentation")
                  /\ HasLine(ret.val, "context_heading") <=> HasKey(d, "context_files")

\* a descriptor holding `name` and `path` only has given the banner with
\* the placeholder description and the structure block, nothing else
C9_Witness ==
    /\ pc = "aggregate_done"
    /\ call.repo_config = YMap(<<Item("name", S("alpha")), Item("path", AlphaPath)>>)
    /\ ~Raised(ret)
    /\ Len(ret.val) = 6
    /\ ret.val[4].v = DefaultDescription

-----------------------------------------------------------------------------
(* C10.  A file that cannot be read or resolved. *)

Entries(v) == IF v.t = "list" THEN {v.l[i] : i \in 1..Len(v.l)} ELSE {v}

\* the documentation files that are declared by a string and can be read
ReadableDocs(f, d) ==
    IF ~HasKey(d, "documentation") THEN {}
    ELSE LET items == Get(d, "documentation").items
             declared == UNION {Entries(items[i].value) : i \in 1..Len(items)}
         IN  {p \in {JoinPath(RootOf(d), ParsePath(e.s)) : e \in {x \in declared : IsStr(x)}} :
                ~ReadAbsent(f, p)}

\* the context files that are declared by a string in a category that is not
\* skipped, are admitted by the policy and can be read
ReadableContext(f, d) ==
    IF ~HasKey(d, "context_files") THEN {}
    ELSE LET items == Get(d, "context_files").items
             kept == {i \in 1..Len(items) : items[i].key \notin {<<"code">>, <<"tests">>}}
         IN  UNION {{p \in {JoinPath(RootOf(d), ParsePath(e.s)) :
                             e \in {x \in ContextEntries(items[i].value) : IsStr(x)}} :
                        PolicyTable(p, items[i].key) /\ ~ReadAbsent(f, p)} : i \in kept}

\* nothing but a declared file can make the aggregation fail
SoundButForFiles(f, d) ==
    MandatoryOk(d) /\ MetaShapeOk(d) /\ GroupsOk(d) /\ IsDir(f, RootOf(d))

\* C10: whichever declared files fail to read or to resolve, the repository's
\* section is returned and holds a file section for every declared file
\* that can be read, and for no other.
C10_FileFailuresSkipped ==
    pc = "aggregate_done" /\ SoundButForFiles(fs, call.repo_config) =>
        /\ ~Raised(ret)
        /\ BannerAt(ret.val, 1)
        /\ {ret.val[i].path : i \in {j \in 1..Len(ret.val) : ret.val[j].k = "file_path"}}
              = ReadableDocs(fs, call.repo_config) \cup ReadableContext(fs, call.repo_config)

-----------------------------------------------------------------------------
(* C11.  The documentation group. *)

IndexOfLine(lines, kind) ==
    IF HasLine(lines, kind)
    THEN CHOOSE i \in 1..Len(lines) :
            lines[i].k = kind /\ \A j \in 1..(i - 1) : lines[j].k # kind
    ELSE 0

\* the lines between the 'Documentation' heading and the context-file group
DocSegment(lines) ==
    LET from == IndexOfLine(lines, "documentation_heading")
        to == IF HasLine(lines, "context_heading")
              THEN IndexOfLine(lines, "context_heading") - 1 ELSE Len(lines)
    IN  SubSeq(lines, from + 1, to)

RECURSIVE SectionsOf(_)
\* the file sections of a run of lines, in order: what each says of its
\* file, its label and its body
SectionsOf(lines) ==
    IF lines = <<>> THEN <<>>
    ELSE IF Len(lines) >= 4 /\ lines[1].k = "file_heading"
              /\ lines[2].k = "file_path" /\ lines[3].k = "file_category"
              /\ lines[4].k = "fence"
         THEN <<[name |-> lines[1].name, path |-> lines[2].path,
                 category |-> lines[3].category, body |-> lines[4].body]>>
              \o SectionsOf(SubSeq(lines, 5, Len(lines)))
    ELSE SectionsOf(Tail(lines))

RECURSIVE DeclaredDocs(_)
\* the declared documentation files in mapping order, then list order
DeclaredDocs(items) ==
    IF items = <<>> THEN <<>>
    ELSE LET v == Head(items).value
             entries == IF v.t = "list" THEN v.l ELSE <<v>>
         IN  [i \in 1..Len(entries) |->
                 [entry |-> entries[i], category |-> Head(items).key]]
             \o DeclaredDocs(Tail(items))

\* the sections the claim expects of a documentation group
ExpectedDocSections(f, d) ==
    LET root == RootOf(d)
        declared == DeclaredDocs(Get(d, "documentation").items)
        At(x) == JoinPath(root, ParsePath(x.entry.s))
        HasContent(x) == ~ReadAbsent(f, At(x))
        got == SelectSeq(declared, HasContent)
    IN  [i \in 1..Len(got) |->
            [name |-> PathName(At(got[i])), path |-> At(got[i]),
             category |-> <<"documentation", "/">> \o got[i].category,
             body |-> Utf8Decode(f[At(got[i])].bytes).val]]

\* C11: for a descriptor with a documentation group, the file sections that
\* follow the 'Documentation' heading are, in mapping order then list order,
\* one section labelled documentation/<category> for each declared file,
\* single or listed, whose path below the root can be read, whatever its
\* suffix, and none for the others; the heading comes after the structure
\* block and no other line stands between the heading and the next group.
C11_DocumentationSections ==
    pc = "aggregate_done" /\ WellFormed(call.repo_config)
        /\ IsDir(fs, RootOf(call.repo_config))
        /\ HasKey(call.repo_config, "documentation") =>
        /\ ~Raised(ret)
        /\ IndexOfLine(ret.val, "structure") >= 1
        /\ IndexOfLine(ret.val, "documentation_heading")
              = IndexOfLine(ret.val, "structure") + 1
        /\ SectionsOf(DocSegment(ret.val))
              = ExpectedDocSections(fs, call.repo_config)
        /\ Len(DocSegment(ret.val))
              = 4 * Len(ExpectedDocSections(fs, call.repo_config))
        /\ ~HasKey(call.repo_config, "context_files") =>
              SectionsOf(ret.val) = SectionsOf(DocSegment(ret.val))

\* a group with a single file and a list, in which reads fail next to reads
\* that succeed and a .bin file is readable, has been aggregated
C11_Witness ==
    /\ pc = "aggregate_done"
    /\ WellFormed(call.repo_config)
    /\ HasKey(call.repo_config, "documentation")
    /\ Get(call.repo_config, "documentation") = MixedDocs
    /\ ~Raised(ret)
    /\ LET secs == SectionsOf(DocSegment(ret.val))
       IN  /\ Len(secs) = 3
           /\ secs[1].name = <<"README", ".", "md">>
           /\ secs[1].category = <<"documentation", "/", "guide">>
           /\ secs[2].path = AlphaRoot \o <<<<"docs">>, <<"api", ".", "md">>>>
           /\ secs[3].name = <<"schema", ".", "bin">>
           /\ secs[3].category = <<"documentation", "/", "api">>

-----------------------------------------------------------------------------
(* C12.  A manifest that is missing or invalid. *)

\* a mapping with a list under `repos`
StructurallyValid(v) ==
    /\ v.t = "map"
    /\ HasKey(v, "repos")
    /\ Get(v, "repos").t = "list"

ManifestUnparsed(f) ==
    \/ ~IsFile(f, ManifestFile)
    \/ Raised(SafeLoad(f[ManifestFile].bytes))

\* no file, text that does not parse, or a document of another structure
ManifestInvalid(f) ==
    \/ ManifestUnparsed(f)
    \/ ~StructurallyValid(SafeLoad(f[ManifestFile].bytes).val)

Artifacts == {Append(OutputRoot, ContextMd), Append(OutputRoot, ContextJson)}

\* the artifacts that the run has created or changed
Written(f, before) ==
    {p \in Artifacts :
        Exists(f, p) /\ (Exists(before, p) => f[p] # before[p])}

\* C12: with a manifest that is missing, does not parse, or parses to
\* something other than a mapping with a list under `repos`, the run ends
\* in the constructor: no collection step is taken, the exit status is not
\* zero and no artifact is written.
C12_InvalidManifestFatal ==
    ManifestInvalid(call.before) =>
        /\ pc \in {"main", "exited"}
        /\ content = <<>>
        /\ Written(fs, call.before) = {}
        /\ pc = "exited" => ExitStatus(ret) # 0

-----------------------------------------------------------------------------
(* C13.  The phases of a run of main. *)

LoadFailed(r) ==
    r \in {SysExit("repos.yaml not found"), SysExit("Error parsing repos.yaml")}

WriteFailed(r) == r = SysExit("Error writing output file")

\* the document is complete: every descriptor processed, the footer last
Assembled ==
    /\ repos_data.t = "map"
    /\ ReposOf(repos_data).val.t = "list"
    /\ idx = Len(Repos)
    /\ EndsWithFooter(content)

\* C13: an artifact is written only once every descriptor has been processed
\* and the footer appended; a run that returns has written exactly one
\* artifact; a run whose manifest was loaded ends with status zero, inline
\* error blocks or not, unless the write fails; and a run ends with a status
\* other than zero only by sys.exit on a manifest that does not load, with
\* nothing collected or written, or on a failing write, with the document
\* assembled.
C13_LoadCollectWriteDone ==
    /\ Written(fs, call.before) # {} => pc = "exited" /\ Assembled
    /\ pc = "exited" /\ ~Raised(ret) =>
          /\ Cardinality(Written(fs, call.before)) = 1
          /\ Assembled
    /\ pc = "exited" /\ ~ManifestUnparsed(call.before) =>
          ExitStatus(ret) = 0 \/ WriteFailed(ret)
    /\ pc = "exited" /\ ExitStatus(ret) # 0 =>
          \/ LoadFailed(ret) /\ content = <<>> /\ Written(fs, call.before) = {}
          \/ WriteFailed(ret) /\ Assembled /\ Written(fs, call.before) = {}

-----------------------------------------------------------------------------
(* C14.  The output writer. *)

\* the file can be created or overwritten
CanOpen(f, p) == ~IsDir(f, p) /\ (IsFile(f, p) => f[p].readable)

\* C14: for the format 'md' write_output leaves in context.md, and for
\* 'json' in context.json, exactly the UTF-8 bytes of the content given,
\* which decode to that content again, and touches no other path; when the
\* file cannot be opened it ends the process and changes nothing; for every
\* other format it raises ValueError and the filesystem is as before.
C14_WritesExactly ==
    pc = "write_done" =>
        LET fm == call.output_format
            target == Append(OutputRoot, IF fm = "md" THEN ContextMd ELSE ContextJson)
        IN  /\ fm \notin {"md", "json"} =>
                  /\ ret = Raise("ValueError", "Unsupported output format")
                  /\ fs = call.before
            /\ fm \in {"md", "json"} /\ CanOpen(call.before, target) =>
                  /\ ret = None
                  /\ IsFile(fs, target)
                  /\ fs[target].bytes = Utf8Encode(call.content)
                  /\ Utf8Decode(fs[target].bytes)
                        = Return([i \in 1..Len(call.content) |-> call.content[i].c])
                  /\ DOMAIN fs = DOMAIN call.before \cup {target}
                  /\ \A q \in DOMAIN call.before \ {target} : fs[q] = call.before[q]
            /\ fm \in {"md", "json"} /\ ~CanOpen(call.before, target) =>
                  /\ WriteFailed(ret)
                  /\ fs = call.before

\* the structured mode has overwritten an earlier context.json with the
\* plain bytes of the text and left context.md alone
C14_Witness ==
    /\ pc = "write_done"
    /\ call.output_format = "json"
    /\ call.content = <<Char("H"), Char("e'")>>
    /\ Exists(call.before, Append(OutputRoot, ContextJson))
    /\ fs[Append(OutputRoot, ContextJson)].bytes = <<"48", "C3", "A9">>
    /\ Exists(fs, Append(OutputRoot, ContextMd))
    /\ fs[Append(OutputRoot, ContextMd)] = call.before[Append(OutputRoot, ContextMd)]
    /\ ret = None

-----------------------------------------------------------------------------
(* C15.  The Section Formatter. *)

\* the spellings of a suffix, whatever the case of its letters
Spellings(low) ==
    CASE low = "md" -> {"md", "MD", "Md"}
      [] low = "yaml" -> {"yaml", "YAML"}
      [] low = "yml" -> {"yml", "YML"}
      [] low = "json" -> {"json", "JSON"}
      [] OTHER -> {low}

HasSuffix(path, low) == \E sp \in Spellings(low) : PathSuffix(path) = <<".", sp>>

\* the language tag the claim gives for a path
TagOf(path) ==
    IF HasSuffix(path, "md") THEN "markdown"
    ELSE IF HasSuffix(path, "yaml") \/ HasSuffix(path, "yml") THEN "yaml"
    ELSE IF HasSuffix(path, "json") THEN "json"
    ELSE "text"

\* C15: _format_file_section gives, in this order, the heading with the
\* base name of the path, the line with the full path, the line with the
\* category label, and one fenced block tagged markdown for .md, yaml for
\* .yaml and .yml, json for .json and text for every other suffix, in any
\* case of the letters, whose body is the content as given; formatting the
\* same inputs once more gives the same section.
C15_SectionShape ==
    /\ pc \in {"format_once", "format_twice"} =>
          /\ ~Raised(ret)
          /\ Len(ret.val) = 4
          /\ ret.val[1] = [k |-> "file_heading",
                           name |-> call.file_path[Len(call.file_path)]]
          /\ ret.val[2] = [k |-> "file_path", path |-> call.file_path]
          /\ ret.val[3] = [k |-> "file_category", category |-> call.category]
          /\ ret.val[4] = [k |-> "fence", lang |-> TagOf(call.file_path),
                           body |-> call.content]
    /\ pc = "format_twice" => result = ret

\* an upper-case .YAML file whose content starts and ends with a space has
\* been formatted twice
C15_Witness ==
    /\ pc = "format_twice"
    /\ PathName(call.file_path) = <<"CONFIG", ".", "YAML">>
    /\ call.content = <<" ", "H", " ">>
    /\ ret.val[4].lang = "yaml"
    /\ ret.val[4].body = <<" ", "H", " ">>
    /\ result = ret

-----------------------------------------------------------------------------
(* C16.  The depth bound of the Tree Renderer. *)

\* depth of an entry below the root, the root's children being at depth 0
DepthOf(root, path) == Len(path) - Len(root) - 1

EntryLines(lines) == {i \in 1..Len(lines) : lines[i].k \in {"dir", "file"}}

TreeLines(lines) == {i \in 1..Len(lines) : lines[i].k \in {"dir", "file", "lock"}}

\* every directory from the root down to the parent of the entry can be
\* listed, and none below the root has an excluded name
Reachable(f, root, path) ==
    /\ \A n \in Len(root)..(Len(path) - 1) : Listable(f, SubSeq(path, 1, n))
    /\ \A n \in (Len(root) + 1)..(Len(path) - 1) : ~ExcludedName(path[n])

\* the entries the claim wants rendered
Renderable(f, root, max_depth) ==
    {p \in DOMAIN f :
        /\ Len(p) > Len(root) /\ SubSeq(p, 1, Len(root)) = root
        /\ DepthOf(root, p) <= max_depth
        /\ ~ExcludedName(PathName(p))
        /\ Reachable(f, root, p)
        /\ IsDir(f, p) \/ PathSuffix(p) \in ShownSuffixes}

\* every entry rendered lies within the bound, every renderable entry is
\* rendered
WithinDepth ==
    pc = "tree_done" /\ ~Raised(ret) =>
        /\ \A i \in EntryLines(ret.val) :
              DepthOf(call.repo_path, ret.val[i].of) <= call.max_depth
        /\ \A p \in Renderable(fs, call.repo_path, call.max_depth) :
              \E i \in EntryLines(ret.val) : ret.val[i].of = p

\* C16 as stated: no line for an entry deeper than maxDepth, every entry
\* within the bound that can be reached is rendered, and no line is indented
\* by more than 2*maxDepth spaces.
C16_IndentWithinBound ==
    /\ WithinDepth
    /\ pc = "tree_done" /\ ~Raised(ret) =>
          \A i \in TreeLines(ret.val) : ret.val[i].indent <= 2 * call.max_depth

\* C16, amended: no line for an entry deeper than maxDepth, every entry
\* within the bound that can be reached is rendered, the line of an entry
\* is indented by twice its depth, so by 2*maxDepth spaces at most; the one
\* line indented deeper is the 'permission denied' marker of a directory at
\* depth maxDepth, which the walk still lists: it stands 2*(maxDepth+1)
\* spaces in.  On every tree the walk has a result, of one line for an
\* entry and one marker for a directory at most.
C16_DepthBound ==
    /\ WithinDepth
    /\ pc = "tree_done" /\ ~Raised(ret) =>
          /\ \A i \in EntryLines(ret.val) :
                /\ ret.val[i].indent = 2 * DepthOf(call.repo_path, ret.val[i].of)
                /\ ret.val[i].indent <= 2 * call.max_depth
          /\ \A i \in TreeLines(ret.val) :
                ret.val[i].k = "lock" =>
                    /\ Denied(fs, ret.val[i].of)
                    /\ DepthOf(call.repo_path, ret.val[i].of) <= call.max_depth
                    /\ ret.val[i].indent
                          = 2 * (DepthOf(call.repo_path, ret.val[i].of) + 1)
    /\ pc = "tree" =>
          LET walk == GetFolderStructure(fs, call.repo_path, call.max_depth)
          IN  ~Raised(walk) => Len(walk.val) <= 2 * Cardinality(DOMAIN fs)

\* with the default bound a chain of four directories below docs has been
\* walked: the directory at depth 3, which cannot be listed, has its line
\* and its marker, and the file at depth 3 next to it is listed
C16_Witness ==
    /\ pc = "tree_done"
    /\ call.max_depth = DefaultMaxDepth
    /\ Denied(fs, Nested(Append(TreeRoot, <<"docs">>), 3))
    /\ ~Raised(ret)
    /\ \E i \in 1..(Len(ret.val) - 1) :
          /\ ret.val[i] = DirLine(Nested(Append(TreeRoot, <<"docs">>), 3), 6)
          /\ ret.val[i + 1] = LockLine(Nested(Append(TreeRoot, <<"docs">>), 3), 8)
    /\ \E i \in 1..Len(ret.val) :
          ret.val[i] = FileLine(Append(Nested(Append(TreeRoot, <<"docs">>), 2),
                                       <<"x", ".", "md">>), 6)

-----------------------------------------------------------------------------
(* C17.  The order and the shape of the listing. *)

IsUnder(path, dir) == Len(path) > Len(dir) /\ SubSeq(path, 1, Len(dir)) = dir

\* p comes before q in a depth-first pre-order walk with sorted siblings:
\* p is an ancestor of q, or where they part p takes the smaller name
PreOrderBefore(p, q) ==
    \/ IsUnder(q, p)
    \/ \E n \in 1..Len(p) :
          /\ n <= Len(q)
          /\ SubSeq(p, 1, n - 1) = SubSeq(q, 1, n - 1)
          /\ p[n] # q[n]
          /\ NameRank(p[n]) < NameRank(q[n])

\* the lines that belong to the subtree of the directory listed at line i
SubtreeLines(lines, i) ==
    {j \in 1..Len(lines) :
        /\ j # i
        /\ \/ IsUnder(lines[j].of, lines[i].of)
           \/ lines[j].k = "lock" /\ lines[j].of = lines[i].of}

\* C17: the entries are listed in depth-first pre-order with the siblings
\* of every level in sorted order; the lines of a directory's subtree
\* follow its own line without a gap; a line is indented by two spaces for
\* each level of depth; a file is listed only with one of the suffixes .md,
\* .yaml, .yml, .json, .txt, .py, .sh, .zsh; a directory that cannot be
\* listed has its own line, then the single marker one level deeper, and
\* nothing else below it.
C17_PreOrderListing ==
    pc = "tree_done" /\ ~Raised(ret) /\ Listable(fs, call.repo_path)
        /\ ret.val # FallbackText =>
        LET lines == ret.val
            root == call.repo_path
        IN  /\ \A i, j \in EntryLines(lines) :
                  i < j => PreOrderBefore(lines[i].of, lines[j].of)
            /\ \A i \in 1..Len(lines) :
                  lines[i].k = "dir" =>
                      /\ IsDir(fs, lines[i].of)
                      /\ SubtreeLines(lines, i)
                            = (i + 1)..(i + Cardinality(SubtreeLines(lines, i)))
            /\ \A i \in EntryLines(lines) :
                  /\ lines[i].indent = 2 * (Len(lines[i].of) - Len(root) - 1)
                  /\ lines[i].name = lines[i].of[Len(lines[i].of)]
            /\ \A i \in 1..Len(lines) :
                  lines[i].k = "file" =>
                      /\ IsFile(fs, lines[i].of)
                      /\ \E ext \in {"md", "yaml", "yml", "json", "txt", "py", "sh", "zsh"} :
                            PathSuffix(lines[i].of) = <<".", ext>>
            /\ \A i \in 1..Len(lines) :
                  lines[i].k = "dir" /\ Denied(fs, lines[i].of) =>
                      /\ i < Len(lines)
                      /\ lines[i + 1].k = "lock"
                      /\ lines[i + 1].of = lines[i].of
                      /\ lines[i + 1].indent = lines[i].indent + 2
                      /\ SubtreeLines(lines, i) = {i + 1}
            /\ \A i \in 1..Len(lines) :
                  lines[i].k = "lock" =>
                      /\ i > 1
                      /\ lines[i - 1].k = "dir"
                      /\ lines[i - 1].of = lines[i].of
                      /\ Denied(fs, lines[i].of)

\* a tree has been listed in which README.md stands before docs, docs
\* before its guide.md and its chain, the directory that cannot be listed
\* before its marker, and the marker before the next sibling, x.md
C17_Witness ==
    /\ pc = "tree_done"
    /\ ~Raised(ret)
    /\ LET docs == Append(TreeRoot, <<"docs">>)
       IN  \E i \in 1..(Len(ret.val) - 6) :
              /\ ret.val[i] = FileLine(Append(TreeRoot, <<"README", ".", "md">>), 0)
              /\ ret.val[i + 1] = DirLine(docs, 0)
              /\ ret.val[i + 2] = FileLine(Append(docs, <<"guide", ".", "md">>), 2)
              /\ ret.val[i + 3] = DirLine(Nested(docs, 1), 2)
              /\ ret.val[i + 4] = DirLine(Nested(docs, 2), 4)
              /\ ret.val[i + 5] = LockLine(Nested(docs, 2), 6)
              /\ ret.val[i + 6] = FileLine(Append(Nested(docs, 1), <<"x", ".", "md">>), 4)

-----------------------------------------------------------------------------
(* C18.  The context-file group. *)

\* the lines after the 'Key Configuration Files' heading
ContextSegment(lines) ==
    SubSeq(lines, IndexOfLine(lines, "context_heading") + 1, Len(lines))

RECURSIVE OutlineOf(_)
\* the subheadings and the file sections of a run of lines, in order
OutlineOf(lines) ==
    IF lines = <<>> THEN <<>>
    ELSE IF lines[1].k = "category_heading"
         THEN <<[subheading |-> lines[1].label]>> \o OutlineOf(Tail(lines))
    ELSE IF Len(lines) >= 4 /\ lines[1].k = "file_heading"
              /\ lines[2].k = "file_path" /\ lines[3].k = "file_category"
              /\ lines[4].k = "fence"
         THEN <<[name |-> lines[1].name, path |-> lines[2].path,
                 category |-> lines[3].category, body |-> lines[4].body]>>
              \o OutlineOf(SubSeq(lines, 5, Len(lines)))
    ELSE OutlineOf(Tail(lines))

\* the paths a category declares, in order
DeclaredPaths(root, value) ==
    LET entries == Iterate(value).val
    IN  [i \in 1..Len(entries) |-> JoinPath(root, ParsePath(entries[i].s))]

RECURSIVE ExpectedOutline(_, _, _)
\* what the claim expects of the categories: nothing of 'code' and 'tests',
\* of any other its subheading and a section for each file that the policy
\* admits and the reader has content for
ExpectedOutline(f, root, items) ==
    IF items = <<>> THEN <<>>
    ELSE LET category == Head(items).key
             paths == DeclaredPaths(root, Head(items).value)
             Shown(p) == PolicyTable(p, category) /\ ~ReadAbsent(f, p)
             got == SelectSeq(paths, Shown)
             this ==
                IF category \in {<<"code">>, <<"tests">>} THEN <<>>
                ELSE <<[subheading |-> Title(category)]>>
                     \o [i \in 1..Len(got) |->
                            [name |-> PathName(got[i]), path |-> got[i],
                             category |-> category,
                             body |-> Utf8Decode(f[got[i]].bytes).val]]
         IN  this \o ExpectedOutline(f, root, Tail(items))

RECURSIVE ExpectedReads(_, _)
\* the files that may be read: those of the categories that are not
\* skipped which the policy admits
ExpectedReads(root, items) ==
    IF items = <<>> THEN <<>>
    ELSE LET category == Head(items).key
             Admitted(p) == PolicyTable(p, category)
         IN  (IF category \in {<<"code">>, <<"tests">>} THEN <<>>
              ELSE SelectSeq(DeclaredPaths(root, Head(items).value), Admitted))
             \o ExpectedReads(root, Tail(items))

\* the subheadings in a run of lines
Subheadings(lines) ==
    {i \in 1..Len(lines) : lines[i].k = "category_heading"}

\* C18: in the context-file step a category named 'code' or 'tests' gives
\* no subheading and no file section and none of its files is read; every
\* other category gives one subheading named after it, followed by a file
\* section for exactly those of its files that the Inclusion Policy admits
\* and the Content Reader has content for; only files the policy admits are
\* handed to the reader.
C18_ContextCategories ==
    pc = "aggregate_done" /\ WellFormed(call.repo_config)
        /\ IsDir(fs, RootOf(call.repo_config))
        /\ HasKey(call.repo_config, "context_files") =>
        LET root == RootOf(call.repo_config)
            items == Get(call.repo_config, "context_files").items
            segment == ContextSegment(ret.val)
            log == ContextReads(root, items)
        IN  /\ ~Raised(ret)
            /\ HasLine(ret.val, "context_heading")
            /\ OutlineOf(segment) = ExpectedOutline(fs, root, items)
            /\ Len(segment)
                  = Cardinality(Subheadings(segment))
                    + 4 * (Len(OutlineOf(segment)) - Cardinality(Subheadings(segment)))
            /\ Cardinality(Subheadings(segment))
                  = Cardinality({i \in 1..Len(items) :
                                    items[i].key \notin {<<"code">>, <<"tests">>}})
            /\ ~log.raised
            /\ log.reads = ExpectedReads(root, items)
            /\ \A i \in 1..Len(log.reads) :
                  \E j \in 1..Len(items) :
                      /\ items[j].key \notin {<<"code">>, <<"tests">>}
                      /\ PolicyTable(log.reads[i], items[j].key)

\* a group with the categories config, code, data and misc has been
\* aggregated: 'code' left no trace, main.py under config and logo.bin
\* under data were rejected unread, missing.yaml and EMPTY.md were read
\* without content
C18_Witness ==
    /\ pc = "aggregate_done"
    /\ WellFormed(call.repo_config)
    /\ HasKey(call.repo_config, "context_files")
    /\ Get(call.repo_config, "context_files") = MixedContext
    /\ ~Raised(ret)
    /\ LET outline == OutlineOf(ContextSegment(ret.val))
       IN  /\ Len(outline) = 6
           /\ outline[1] = [subheading |-> <<"Config">>]
           /\ outline[2].name = <<"config", ".", "yaml">>
           /\ outline[3] = [subheading |-> <<"Data">>]
           /\ outline[4].name = <<"schema", ".", "bin">>
           /\ outline[4].category = <<"data">>
           /\ outline[5] = [subheading |-> <<"Misc">>]
           /\ outline[6].name = <<"README", ".", "md">>
    /\ ContextReads(AlphaRoot, MixedContext.items).reads
          = << Append(AlphaRoot, <<"config", ".", "yaml">>),
               Append(AlphaRoot, <<"missing", ".", "yaml">>),
               Append(AlphaRoot, <<"schema", ".", "bin">>),
               Append(AlphaRoot, <<"README", ".", "md">>),
               Append(AlphaRoot, <<"EMPTY", ".", "md">>) >>

-----------------------------------------------------------------------------
(* C19.  The accumulator of collect_all. *)

IsPrefix(a, b) == Len(a) <= Len(b) /\ SubSeq(b, 1, Len(a)) = a

\* what one descriptor adds to the document, given the filesystem and the
\* descriptor alone: its section, or the inline error block of its failure
BlockOf(f, d) ==
    LET r == CollectRepoFiles(f, d)
    IN  [failed |-> Raised(r),
         lines |-> IF Raised(r) THEN ErrorLines(ReportedName(d), r) ELSE r.val]

RECURSIVE BlocksUpTo(_, _, _)
\* the blocks of the descriptors 1..k
BlocksUpTo(f, repos, k) ==
    IF k = 0 THEN <<>>
    ELSE Append(BlocksUpTo(f, repos, k - 1), BlockOf(f, repos[k]))

RECURSIVE DocsUpTo(_, _, _)
\* the documents after the descriptors 1..k: each is the one before it, the
\* header at first, followed by the block of its descriptor
DocsUpTo(header, blocks, k) ==
    IF k = 0 THEN <<>>
    ELSE LET before == DocsUpTo(header, blocks, k - 1)
             last == IF k = 1 THEN header ELSE before[k - 1]
         IN  Append(before, last \o blocks[k].lines)

KindsOf(lines) == [i \in 1..Len(lines) |-> lines[i].k]

\* C19: the document only grows, by one whole block for each descriptor:
\* after descriptor k it is the document after descriptor k-1 followed by
\* the block of descriptor k, which depends on that descriptor alone; the
\* block of a descriptor whose aggregation failed is the three lines of the
\* inline error block and holds no banner, metadata, structure block or
\* file section of the failed aggregation; if the run is abandoned no line
\* of the descriptor at hand has been added; the header's total is the
\* length of the manifest whether or not descriptors fail.
C19_AppendOnlyAtomic ==
    pc \in {"for_repo", "returned", "raised"} =>
        LET blocks == BlocksUpTo(fs, Repos, idx)
            header == HeaderLines(call.source, Len(Repos))
            docs == DocsUpTo(header, blocks, idx)
            doc == <<header>> \o docs
            AddedBy(k) == SubSeq(content, Len(doc[k]) + 1, Len(doc[k + 1]))
        IN  /\ content = doc[idx + 1] \o (IF pc = "returned" THEN FooterLines ELSE <<>>)
            /\ \A k \in 1..idx :
                  /\ IsPrefix(doc[k], doc[k + 1])
                  /\ IsPrefix(doc[k + 1], content)
                  /\ AddedBy(k) = blocks[k].lines
                  /\ blocks[k].failed =>
                        /\ KindsOf(AddedBy(k))
                              = <<"error_heading", "error_repository", "error_detail">>
                        /\ AddedBy(k)[2].v = ReportedName(Repos[k])
                  /\ \A j \in 1..idx : Repos[j] = Repos[k] => AddedBy(j) = AddedBy(k)
            /\ content[5] = [k |-> "total", n |-> Len(Repos)]
            /\ Cardinality({i \in 1..Len(content) : content[i].k = "total"}) = 1
            /\ pc = "raised" => idx < Len(Repos) /\ content = doc[idx + 1]

\* after a descriptor whose aggregation fails once a file section has been
\* built, and an empty repository: the document holds the error block of the
\* first, then the section of the second, no file section, and a total of 2
C19_Witness ==
    /\ pc = "returned"
    /\ Repos = <<DNullFile, DBeta>>
    /\ content[5].n = 2
    /\ KindsOf(SubSeq(content, 7, 9))
          = <<"error_heading", "error_repository", "error_detail">>
    /\ content[8].v = S("epsilon")
    /\ BannerAt(content, 10)
    /\ content[11].v = S("beta")
    /\ ~HasLine(content, "file_heading")
    /\ EndsWithFooter(content)

=============================================================================
